---- MODULE Spec2Model ----
(***************************************************************************)
(* Model of node-identity: the session store (SessionAdmin / Session), the *)
(* atomic coordinator (Identity.atomicOperation) and the user / group      *)
(* façades they coordinate, over one relational store.                     *)
(*                                                                         *)
(* Time is counted in the store's datetime resolution; `now` is the value  *)
(* `new Date().getTime()` returns.  Tokens are natural numbers: the value  *)
(* generateToken returns is modelled as the next value of a generator that *)
(* never repeats (20 random bytes).  The `created` column is never read by *)
(* the code and is left out of the rows.                                   *)
(***************************************************************************)
EXTENDS Integers, Sequences, FiniteSets, TLC

VARIABLES
  now,      \* the wall clock
  db,       \* the committed tables
  trx,      \* stack of the working tables of the open transactions
  autoinc,  \* AUTO_INCREMENT counters, per table (not transactional)
  rand,     \* number of tokens generateToken has produced
  held,     \* Session objects the caller holds, by slot
  last,     \* the last call that settled: its arguments and its outcome
  pc,       \* position of the atomicOperation call in flight
  cb,       \* what the callback in flight did: pre-state, writes, error
  racer,    \* the renew calls in flight, per concurrent caller
  mig,      \* the schema: its tables, the migration tables, the Schema call
  heldUsers,\* User objects the caller holds, by slot
  calls     \* the other calls: those in flight, and what the last returned

vars == <<now, db, trx, autoinc, rand, held, last, pc, cb, racer, mig,
          heldUsers, calls>>

----------------------------------------------------------------------------
(* Bounds of the model. *)

MaxTime == 3
MaxDrift == 1
MaxCreates == 1
MaxTokens == 6
MaxWrites == 2

(* JS null / SQL NULL. *)
Null == -99

Slots == {"a", "b"}
Tokens == 1 .. MaxTokens
Procs == {1, 2}
Usernames == {"u1", "u2"}
Groupnames == {"g1"}
Handles == {"knex", "trx"}

----------------------------------------------------------------------------
(* Lifetime and its conversion. *)

Lifetime(ms) ==
  [years |-> 0, months |-> 0, weeks |-> 0, days |-> 0, hours |-> 0,
   minutes |-> 0, seconds |-> 0, milliseconds |-> ms]

lifetimeToMs(t) ==
  t.milliseconds
  + t.seconds * 1000
  + t.minutes * 60 * 1000
  + t.hours * 60 * 60 * 1000
  + t.days * 24 * 60 * 60 * 1000
  + t.weeks * 7 * 24 * 60 * 60 * 1000
  + (t.months * 61 * 24 * 60 * 60 * 1000) \div 2
  + t.years * 365 * 24 * 60 * 60 * 1000

Lifetimes == {Lifetime(ms) : ms \in {-1, 1}}
Periods == {Lifetime(ms) : ms \in {2}}
HandleLifetimes == {Lifetime(ms) : ms \in {-1, 0, 1}}

----------------------------------------------------------------------------
(* Rows, tables, handles. *)

SessionRow(id, token, userId, expires, renewalToken, renewableUntil) ==
  [id |-> id, token |-> token, userId |-> userId, expires |-> expires,
   renewalToken |-> renewalToken, renewableUntil |-> renewableUntil]

Session(h, id, token, userId, expirationDate, renewalToken, renewableUntil) ==
  [db |-> h, id |-> id, token |-> token, userId |-> userId,
   expirationDate |-> expirationDate, renewalToken |-> renewalToken,
   renewableUntil |-> renewableUntil]

NoSession == Session("knex", Null, Null, Null, Null, Null, Null)

EmptyTables ==
  [sessions |-> {}, users |-> {}, groups |-> {}, members |-> {}, data |-> {}]

(* Rows that an earlier schema version of the store left behind: the       *)
(* expires, renewal_token and renewable_until columns were added by later  *)
(* migrations and are nullable.                                            *)
LegacyRows == {SessionRow(1, 1, Null, Null, 2, Null)}

LegacyTokens == 2 * Cardinality(LegacyRows)

(* What the session table holds at the start: nothing, or the legacy row,  *)
(* anonymous or bound to the user with id 1.                               *)
LegacyTables ==
  {{}} \cup {{[r EXCEPT !.userId = u]} : r \in LegacyRows, u \in {Null, 1}}

NoRow == SessionRow(Null, Null, Null, Null, Null, Null)

isTransaction(h) == h = "trx"

View(h) == IF isTransaction(h) THEN trx[Len(trx)] ELSE db

Store(h, t) ==
  IF isTransaction(h)
    THEN trx' = [trx EXCEPT ![Len(trx)] = t] /\ db' = db
    ELSE db' = t /\ trx' = trx

(* A handle can be used while its connection can: the transaction's inside *)
(* the callback, the pool's while no transaction is in flight.             *)
Usable(h) == IF isTransaction(h) THEN pc = "callback" ELSE pc = "idle"

(* A settled call: its arguments, the clock and the stored row it met when *)
(* it was made, and its outcome.                                           *)
Call(op, h, token, renewalToken, lifetime, period, at, row, err, ret) ==
  [op |-> op, db |-> h, token |-> token, renewalToken |-> renewalToken,
   lifetime |-> lifetime, period |-> period, at |-> at, row |-> row,
   err |-> err, ret |-> ret]

(* A settled call on a Session object: its name and its outcome. *)
Did(op, h, err) == Call(op, h, Null, Null, 0, 0, 0, NoRow, err, NoSession)

NoCall == Call("none", "knex", Null, Null, 0, 0, 0, NoRow, "none", NoSession)

Met(rows) == IF rows = {} THEN NoRow ELSE CHOOSE r \in rows : TRUE

Result(err, ret, tables) == [err |-> err, ret |-> ret, tables |-> tables]

----------------------------------------------------------------------------
(* SessionAdmin. *)

generateToken(n) == n + 1

(* Mutant: the column has no unique index. *)
DupTokenUnchecked(t, token, id) == FALSE

(* INSERT / UPDATE against the unique index on session_token. *)
DupToken(t, token, id) ==
  \E r \in t.sessions : r.token = token /\ r.id # id

InsertSession(t, row) ==
  IF DupToken(t, row.token, row.id)
    THEN Result("ER_DUP_ENTRY", NoSession, t)
    ELSE Result("none", NoSession,
                [t EXCEPT !.sessions = t.sessions \cup {row}])

(* Mutant: the UPDATE addresses the row by the token that was read. *)
AddressedByToken(r, row) == r.token = row.token

(* renew, the WHERE clause of the UPDATE: the id that was read. *)
Addressed(r, row) == r.id = row.id

(* Mutant: the UPDATE also clears user_id. *)
UpdateSessionUnbinds(t, row, token, expires, renewalToken, renewableUntil) ==
  [err |-> "none", ret |-> NoSession,
   tables |-> [t EXCEPT !.sessions =
                 {IF Addressed(r, row)
                    THEN SessionRow(r.id, token, Null, expires, renewalToken,
                                    renewableUntil)
                    ELSE r : r \in t.sessions}]]

(* Mutant: the UPDATE leaves session_token as it is. *)
UpdateSessionKeepsToken(t, row, token, expires, renewalToken, renewableUntil) ==
  [err |-> "none", ret |-> NoSession,
   tables |-> [t EXCEPT !.sessions =
                 {IF Addressed(r, row)
                    THEN SessionRow(r.id, r.token, r.userId, expires,
                                    renewalToken, renewableUntil)
                    ELSE r : r \in t.sessions}]]

UpdateSession(t, row, token, expires, renewalToken, renewableUntil) ==
  IF \E r \in t.sessions : Addressed(r, row) /\ DupToken(t, token, r.id)
    THEN Result("ER_DUP_ENTRY", NoSession, t)
    ELSE Result("none", NoSession,
                [t EXCEPT !.sessions =
                   {IF Addressed(r, row)
                      THEN SessionRow(r.id, token, r.userId, expires,
                                      renewalToken, renewableUntil)
                      ELSE r : r \in t.sessions}])

(* Mutant: a negative lifetime counts as none. *)
createClamped(t, h, id, lifetime, renewalPeriod, t1, t2, n) ==
  LET token == generateToken(n)
      lifetimeMs == IF lifetimeToMs(lifetime) < 0 THEN 0
                                                  ELSE lifetimeToMs(lifetime)
      expirationDate == t1 + lifetimeMs
      renewalToken == generateToken(n + 1)
      renewalPeriodMs == lifetimeToMs(renewalPeriod)
      renewableUntilDate == t2 + lifetimeMs + renewalPeriodMs
      ins == InsertSession(t, SessionRow(id, token, Null, expirationDate,
                                         renewalToken, renewableUntilDate))
  IN  IF ins.err # "none"
        THEN ins
        ELSE Result("none",
                    Session(h, id, token, Null, expirationDate, renewalToken,
                            renewableUntilDate),
                    ins.tables)

(* create: t1 and t2 are the two readings of the clock. *)
create(t, h, id, lifetime, renewalPeriod, t1, t2, n) ==
  LET token == generateToken(n)
      lifetimeMs == lifetimeToMs(lifetime)
      expirationDate == t1 + lifetimeMs
      renewalToken == generateToken(n + 1)
      renewalPeriodMs == lifetimeToMs(renewalPeriod)
      renewableUntilDate == t2 + lifetimeMs + renewalPeriodMs
      ins == InsertSession(t, SessionRow(id, token, Null, expirationDate,
                                         renewalToken, renewableUntilDate))
  IN  IF ins.err # "none"
        THEN ins
        ELSE Result("none",
                    Session(h, id, token, Null, expirationDate, renewalToken,
                            renewableUntilDate),
                    ins.tables)

(* Mutant: the SELECT matches on the session token alone. *)
RenewSelectByToken(t, sessionToken, renewalToken) ==
  {r \in t.sessions : r.token = sessionToken}

(* renew, the SELECT. *)
RenewSelect(t, sessionToken, renewalToken) ==
  {r \in t.sessions : r.token = sessionToken /\ r.renewalToken = renewalToken}

(* Mutant: renewal is refused once the session itself has expired. *)
RenewalElapsedWithExpiry(row, clock) ==
  \/ row.renewableUntil # Null /\ clock > row.renewableUntil
  \/ row.expires # Null /\ clock > row.expires

(* Mutant: renewal is refused from the last instant of the window on. *)
RenewalElapsedAtBoundary(row, clock) ==
  row.renewableUntil # Null /\ clock >= row.renewableUntil

(* renew, the check of the renewal window. *)
RenewalElapsed(row, clock) ==
  row.renewableUntil # Null /\ clock > row.renewableUntil

(* renew, from the SELECT's result on: t0, t1, t2 are the three readings   *)
(* of the clock, t the tables the UPDATE meets.                            *)
renew(t, h, sessionResult, lifetime, renewalPeriod, t0, t1, t2, n) ==
  IF sessionResult = {}
    THEN Result("SessionRenewalError", NoSession, t)
    ELSE
      LET row == CHOOSE r \in sessionResult : TRUE
      IN  IF RenewalElapsed(row, t0)
            THEN Result("SessionRenewalError", NoSession, t)
            ELSE
              LET newToken == generateToken(n)
                  newRenewalToken == generateToken(n + 1)
                  lifetimeMs == lifetimeToMs(lifetime)
                  expirationDate == t1 + lifetimeMs
                  renewalPeriodMs == lifetimeToMs(renewalPeriod)
                  renewableUntilDate == t2 + lifetimeMs + renewalPeriodMs
                  upd == UpdateSession(t, row, newToken, expirationDate,
                                       newRenewalToken, renewableUntilDate)
              IN  IF upd.err # "none"
                    THEN upd
                    ELSE Result("none",
                                Session(h, row.id, newToken, row.userId,
                                        expirationDate, newRenewalToken,
                                        renewableUntilDate),
                                upd.tables)

(* Mutant: purge selects by the expiry of the session. *)
PurgedByExpiry(r, clock) == r.expires # Null /\ r.expires < clock

(* purge, the WHERE clause: a comparison with NULL selects nothing. *)
Purged(r, clock) == r.renewableUntil # Null /\ r.renewableUntil < clock

purge(t, clock) ==
  [t EXCEPT !.sessions = {r \in t.sessions : ~Purged(r, clock)}]

(* Mutant: a session is expired from the instant of its expiry on. *)
ExpiredAtExpiry(expirationDate, clock) ==
  expirationDate # Null /\ expirationDate <= clock

(* open, the check of the expiry. *)
Expired(expirationDate, clock) ==
  expirationDate # Null /\ expirationDate < clock

open(t, h, token, clock) ==
  LET sessionResult == {r \in t.sessions : r.token = token}
  IN  IF sessionResult = {}
        THEN Result("SessionInvalidError", NoSession, t)
        ELSE
          LET row == CHOOSE r \in sessionResult : TRUE
              expirationDate == row.expires
          IN  IF Expired(expirationDate, clock)
                THEN Result("SessionExpiredError", NoSession, t)
                ELSE Result("none",
                            Session(h, row.id, row.token, row.userId,
                                    expirationDate, row.renewalToken,
                                    row.renewableUntil),
                            t)

----------------------------------------------------------------------------
(* Session (the handle): every statement addresses the row by this.id. *)

(* Mutant: the DELETE addresses the row by the token the object caches. *)
destroyByToken(t, this) ==
  [t EXCEPT !.sessions = {r \in t.sessions : r.token # this.token}]

destroy(t, this) ==
  [t EXCEPT !.sessions = {r \in t.sessions : r.id # this.id}]

(* UPDATE user_id: the foreign key to user_accounts is checked for the     *)
(* rows the statement changes.                                             *)
(* Mutant: the UPDATE has no WHERE clause. *)
setUserIdUnscoped(t, this, userId) ==
  IF userId # Null /\ ~(\E u \in t.users : u.id = userId)
    THEN Result("ER_NO_REFERENCED_ROW", this, t)
    ELSE Result("none", [this EXCEPT !.userId = userId],
                [t EXCEPT !.sessions =
                   {[r EXCEPT !.userId = userId] : r \in t.sessions}])

setUserId(t, this, userId) ==
  IF (\E r \in t.sessions : r.id = this.id)
     /\ userId # Null
     /\ ~(\E u \in t.users : u.id = userId)
    THEN Result("ER_NO_REFERENCED_ROW", this, t)
    ELSE Result("none", [this EXCEPT !.userId = userId],
                [t EXCEPT !.sessions =
                   {IF r.id = this.id THEN [r EXCEPT !.userId = userId] ELSE r
                      : r \in t.sessions}])

discardUserId(t, this) == setUserId(t, this, Null)

(* Mutant: the lifetime is added to the expiry the object has cached. *)
updateLifetimeExtends(t, this, lifetime, renewalPeriod, clock) ==
  LET lifetimeMs == lifetimeToMs(lifetime)
      expirationDate == IF this.expirationDate = Null
                          THEN clock + lifetimeMs
                          ELSE this.expirationDate + lifetimeMs
      renewableUntilDate == expirationDate + lifetimeToMs(renewalPeriod)
  IN  Result("none",
             [this EXCEPT !.expirationDate = expirationDate,
                          !.renewableUntil = renewableUntilDate],
             [t EXCEPT !.sessions =
                {IF r.id = this.id
                   THEN [r EXCEPT !.expires = expirationDate,
                                  !.renewableUntil = renewableUntilDate]
                   ELSE r : r \in t.sessions}])

updateLifetime(t, this, lifetime, renewalPeriod, clock) ==
  LET lifetimeMs == lifetimeToMs(lifetime)
      expirationDate == clock + lifetimeMs
      renewableUntilDate == expirationDate + lifetimeToMs(renewalPeriod)
  IN  Result("none",
             [this EXCEPT !.expirationDate = expirationDate,
                          !.renewableUntil = renewableUntilDate],
             [t EXCEPT !.sessions =
                {IF r.id = this.id
                   THEN [r EXCEPT !.expires = expirationDate,
                                  !.renewableUntil = renewableUntilDate]
                   ELSE r : r \in t.sessions}])

----------------------------------------------------------------------------
(* UserAdmin, GroupAdmin, Group. *)

(* A row that UserAdmin.create inserts: the password is null until         *)
(* setPassword.                                                            *)
UserRow(id, username) == [id |-> id, username |-> username, password |-> Null]
GroupRow(id, name) == [id |-> id, name |-> name]
MemberRow(id, groupId, userId) ==
  [id |-> id, groupId |-> groupId, userId |-> userId]

userExists(t, username) == \E u \in t.users : u.username = username

userCreate(t, id, username) ==
  IF userExists(t, username)
    THEN Result("UserExistsError", NoSession, t)
    ELSE Result("none", NoSession,
                [t EXCEPT !.users = t.users \cup {UserRow(id, username)}])

(* Mutant: the sessions of the user are deleted with the user. *)
userRemoveCascades(t, username) ==
  IF ~userExists(t, username)
    THEN Result("UserInvalidError", NoSession, t)
    ELSE
      LET gone == {u.id : u \in {v \in t.users : v.username = username}}
      IN  Result("none", NoSession,
                 [t EXCEPT
                    !.users = {u \in t.users : u.username # username},
                    !.members = {m \in t.members : m.userId \notin gone},
                    !.data = {d \in t.data : d.userId \notin gone},
                    !.sessions = {r \in t.sessions : r.userId \notin gone}])

(* DELETE FROM user_accounts: group_members and user_data cascade,         *)
(* session_tokens is set to NULL.                                          *)
userRemove(t, username) ==
  IF ~userExists(t, username)
    THEN Result("UserInvalidError", NoSession, t)
    ELSE
      LET gone == {u.id : u \in {v \in t.users : v.username = username}}
      IN  Result("none", NoSession,
                 [t EXCEPT
                    !.users = {u \in t.users : u.username # username},
                    !.members = {m \in t.members : m.userId \notin gone},
                    !.data = {d \in t.data : d.userId \notin gone},
                    !.sessions =
                      {IF r.userId \in gone THEN [r EXCEPT !.userId = Null]
                                            ELSE r : r \in t.sessions}])

groupExists(t, name) == \E g \in t.groups : g.name = name

groupCreate(t, id, name) ==
  IF groupExists(t, name)
    THEN Result("GroupExistsError", NoSession, t)
    ELSE Result("none", NoSession,
                [t EXCEPT !.groups = t.groups \cup {GroupRow(id, name)}])

groupRemove(t, name) ==
  IF ~groupExists(t, name)
    THEN Result("GroupInvalidError", NoSession, t)
    ELSE
      LET gone == {g.id : g \in {v \in t.groups : v.name = name}}
      IN  Result("none", NoSession,
                 [t EXCEPT
                    !.groups = {g \in t.groups : g.name # name},
                    !.members = {m \in t.members : m.groupId \notin gone}])

hasMember(t, groupId, userId) ==
  \E m \in t.members : m.groupId = groupId /\ m.userId = userId

addMember(t, id, groupId, userId) ==
  IF hasMember(t, groupId, userId)
    THEN Result("GroupHasMemberError", NoSession, t)
    ELSE IF ~(\E g \in t.groups : g.id = groupId)
            \/ ~(\E u \in t.users : u.id = userId)
      THEN Result("ER_NO_REFERENCED_ROW", NoSession, t)
      ELSE Result("none", NoSession,
                  [t EXCEPT !.members =
                     t.members \cup {MemberRow(id, groupId, userId)}])

----------------------------------------------------------------------------
(* The row-level writes of a call, for the record of what a callback did. *)

Delta(t, u) ==
  [added |-> [k \in DOMAIN t |-> u[k] \ t[k]],
   removed |-> [k \in DOMAIN t |-> t[k] \ u[k]]]

NoDelta == Delta(EmptyTables, EmptyTables)

Logged(h, t, u) ==
  IF isTransaction(h) /\ Delta(t, u) # NoDelta
    THEN [cb EXCEPT !.log = Append(@, Delta(t, u))]
    ELSE cb

(* Room for one more write in the callback's record. *)
Room(h) == isTransaction(h) => Len(cb.log) < MaxWrites

----------------------------------------------------------------------------
(* The calls, as steps of the system. *)

(* The caller keeps the Session a call returns in variable s, or drops it. *)
Keep(s, o) ==
  IF s \in Slots /\ o.err = "none" THEN [held EXCEPT ![s] = o.ret] ELSE held

(* create, with n what generateToken has produced before the call. *)
CreateWith(h, lifetime, renewalPeriod, s, n) ==
  /\ Usable(h) /\ Room(h)
  /\ autoinc.sessions <= Cardinality(LegacyRows) + MaxCreates
  /\ \E d \in 0 .. MaxDrift :
       LET o == create(View(h), h, autoinc.sessions, lifetime, renewalPeriod,
                       now, now + d, n)
       IN  /\ now + d <= MaxTime
           /\ now' = now + d
           /\ Store(h, o.tables)
           /\ cb' = Logged(h, View(h), o.tables)
           /\ held' = Keep(s, o)
           /\ last' = Call("create", h, Null, Null, lifetimeToMs(lifetime),
                           lifetimeToMs(renewalPeriod), now, NoRow, o.err,
                           o.ret)
  /\ autoinc' = [autoinc EXCEPT !.sessions = @ + 1]
  /\ UNCHANGED <<calls, mig, heldUsers, pc, racer>>

Create(h, lifetime, renewalPeriod, s) ==
  /\ rand + 2 <= MaxTokens
  /\ CreateWith(h, lifetime, renewalPeriod, s, rand)
  /\ rand' = rand + 2

Open(h, token, s) ==
  /\ Usable(h)
  /\ LET o == open(View(h), h, token, now)
     IN  /\ held' = Keep(s, o)
         /\ last' = Call("open", h, token, Null, 0, 0, now,
                         Met({r \in View(h).sessions : r.token = token}),
                         o.err, o.ret)
  /\ UNCHANGED <<calls, mig, heldUsers, now, db, trx, autoinc, rand, pc, cb, racer>>

(* renew, with n what generateToken has produced before the call. *)
RenewWith(h, sessionToken, lifetime, renewalToken, renewalPeriod, s, n) ==
  /\ Usable(h) /\ Room(h)
  /\ \E d1, d2 \in 0 .. MaxDrift :
       LET o == renew(View(h), h,
                      RenewSelect(View(h), sessionToken, renewalToken),
                      lifetime, renewalPeriod, now, now + d1, now + d1 + d2,
                      n)
       IN  /\ d1 + d2 <= MaxDrift
           /\ now + d1 + d2 <= MaxTime
           /\ (o.err = "SessionRenewalError") => (d1 = 0 /\ d2 = 0)
           /\ now' = now + d1 + d2
           /\ Store(h, o.tables)
           /\ cb' = Logged(h, View(h), o.tables)
           /\ held' = Keep(s, o)
           /\ last' = Call("renew", h, sessionToken, renewalToken,
                           lifetimeToMs(lifetime), lifetimeToMs(renewalPeriod),
                           now,
                           Met({r \in View(h).sessions :
                                  /\ r.token = sessionToken
                                  /\ r.renewalToken = renewalToken}),
                           o.err, o.ret)
  /\ UNCHANGED <<calls, mig, heldUsers, autoinc, pc, racer>>

Renew(h, sessionToken, lifetime, renewalToken, renewalPeriod, s) ==
  /\ rand + 2 <= MaxTokens
  /\ RenewWith(h, sessionToken, lifetime, renewalToken, renewalPeriod, s, rand)
  /\ rand' = IF last'.err = "SessionRenewalError" THEN rand ELSE rand + 2

Purge(h) ==
  /\ Usable(h) /\ Room(h)
  /\ Store(h, purge(View(h), now))
  /\ cb' = Logged(h, View(h), purge(View(h), now))
  /\ last' = Call("purge", h, Null, Null, 0, 0, now, NoRow, "none", NoSession)
  /\ UNCHANGED <<calls, mig, heldUsers, now, autoinc, rand, held, pc, racer>>

Destroy(s) ==
  LET this == held[s] IN
  /\ this # NoSession
  /\ Usable(this.db) /\ Room(this.db)
  /\ Store(this.db, destroy(View(this.db), this))
  /\ cb' = Logged(this.db, View(this.db), destroy(View(this.db), this))
  /\ last' = Did("destroy", this.db, "none")
  /\ UNCHANGED <<calls, mig, heldUsers, now, autoinc, rand, held, pc, racer>>

(* Mutant: the handles of one record share their cached fields. *)
AssignedShared(s, this) ==
  [x \in Slots |-> IF held[x].id = this.id THEN this ELSE held[x]]

(* this.userId = ..., this.expirationDate = ...: the private fields of the *)
(* one object the method was called on.                                    *)
Assigned(s, this) == [held EXCEPT ![s] = this]

SetUserId(s, userId) ==
  LET this == held[s]
      o == setUserId(View(this.db), this, userId) IN
  /\ this # NoSession
  /\ Usable(this.db) /\ Room(this.db)
  /\ Store(this.db, o.tables)
  /\ cb' = Logged(this.db, View(this.db), o.tables)
  /\ held' = Assigned(s, o.ret)
  /\ last' = Did("setUserId", this.db, o.err)
  /\ UNCHANGED <<calls, mig, heldUsers, now, autoinc, rand, pc, racer>>

DiscardUserId(s) ==
  LET this == held[s]
      o == discardUserId(View(this.db), this) IN
  /\ this # NoSession
  /\ Usable(this.db) /\ Room(this.db)
  /\ Store(this.db, o.tables)
  /\ cb' = Logged(this.db, View(this.db), o.tables)
  /\ held' = Assigned(s, o.ret)
  /\ last' = Did("discardUserId", this.db, o.err)
  /\ UNCHANGED <<calls, mig, heldUsers, now, autoinc, rand, pc, racer>>

UpdateLifetime(s, lifetime, renewalPeriod) ==
  LET this == held[s]
      o == updateLifetime(View(this.db), this, lifetime, renewalPeriod, now) IN
  /\ this # NoSession
  /\ Usable(this.db) /\ Room(this.db)
  /\ Store(this.db, o.tables)
  /\ cb' = Logged(this.db, View(this.db), o.tables)
  /\ held' = Assigned(s, o.ret)
  /\ last' = Did("updateLifetime", this.db, o.err)
  /\ UNCHANGED <<calls, mig, heldUsers, now, autoinc, rand, pc, racer>>

UserCreate(h, username) ==
  LET o == userCreate(View(h), autoinc.users, username) IN
  /\ Usable(h) /\ Room(h)
  /\ autoinc.users <= MaxCreates + 1
  /\ Store(h, o.tables)
  /\ cb' = Logged(h, View(h), o.tables)
  /\ autoinc' = IF o.err = "none" THEN [autoinc EXCEPT !.users = @ + 1]
                                  ELSE autoinc
  /\ last' = Call("user.create", h, Null, Null, 0, 0, now, NoRow, o.err,
                  NoSession)
  /\ UNCHANGED <<calls, mig, heldUsers, now, rand, held, pc, racer>>

UserRemove(h, username) ==
  LET o == userRemove(View(h), username) IN
  /\ Usable(h) /\ Room(h)
  /\ Store(h, o.tables)
  /\ cb' = Logged(h, View(h), o.tables)
  /\ last' = Call("user.remove", h, Null, Null, 0, 0, now, NoRow, o.err,
                  NoSession)
  /\ UNCHANGED <<calls, mig, heldUsers, now, autoinc, rand, held, pc, racer>>

GroupCreate(h, name) ==
  LET o == groupCreate(View(h), autoinc.groups, name) IN
  /\ Usable(h) /\ Room(h)
  /\ autoinc.groups <= MaxCreates
  /\ Store(h, o.tables)
  /\ cb' = Logged(h, View(h), o.tables)
  /\ autoinc' = IF o.err = "none" THEN [autoinc EXCEPT !.groups = @ + 1]
                                  ELSE autoinc
  /\ last' = Call("group.create", h, Null, Null, 0, 0, now, NoRow, o.err,
                  NoSession)
  /\ UNCHANGED <<calls, mig, heldUsers, now, rand, held, pc, racer>>

GroupRemove(h, name) ==
  LET o == groupRemove(View(h), name) IN
  /\ Usable(h) /\ Room(h)
  /\ Store(h, o.tables)
  /\ cb' = Logged(h, View(h), o.tables)
  /\ last' = Call("group.remove", h, Null, Null, 0, 0, now, NoRow, o.err,
                  NoSession)
  /\ UNCHANGED <<calls, mig, heldUsers, now, autoinc, rand, held, pc, racer>>

(* group.addMember(user), for the Group and User objects of the rows with  *)
(* these ids.                                                              *)
AddMember(h, groupId, userId) ==
  LET o == addMember(View(h), autoinc.members, groupId, userId) IN
  /\ Usable(h) /\ Room(h)
  /\ Store(h, o.tables)
  /\ cb' = Logged(h, View(h), o.tables)
  /\ autoinc' = IF o.err = "none" THEN [autoinc EXCEPT !.members = @ + 1]
                                  ELSE autoinc
  /\ last' = Call("group.addMember", h, Null, Null, 0, 0, now, NoRow, o.err,
                  NoSession)
  /\ UNCHANGED <<calls, mig, heldUsers, now, rand, held, pc, racer>>

(* renew as two steps of a caller that runs beside others: the SELECT,     *)
(* then, when its result arrives, the rest of the function.                *)
Racer(at, token, renewalToken, sessionResult, order, err, ret) ==
  [at |-> at, token |-> token, renewalToken |-> renewalToken,
   sessionResult |-> sessionResult, order |-> order, err |-> err, ret |-> ret]

NoRacer == Racer("idle", Null, Null, {}, 0, "none", NoSession)

Returned == Cardinality({p \in Procs : racer[p].at = "returned"})

RenewSelects(p, sessionToken, renewalToken) ==
  /\ pc = "idle"
  /\ racer[p].at = "idle"
  /\ racer' = [racer EXCEPT ![p] =
                 Racer("selected", sessionToken, renewalToken,
                       RenewSelect(db, sessionToken, renewalToken), 0, "none",
                       NoSession)]
  /\ UNCHANGED <<calls, mig, heldUsers, now, db, trx, autoinc, rand, held, last, pc, cb>>

RenewContinues(p, lifetime, renewalPeriod) ==
  /\ pc = "idle"
  /\ racer[p].at = "selected"
  /\ rand + 2 <= MaxTokens
  /\ \E d1, d2 \in 0 .. MaxDrift :
       LET o == renew(db, "knex", racer[p].sessionResult, lifetime,
                      renewalPeriod, now, now + d1, now + d1 + d2, rand)
       IN  /\ d1 + d2 <= MaxDrift
           /\ now + d1 + d2 <= MaxTime
           /\ (o.err = "SessionRenewalError") => (d1 = 0 /\ d2 = 0)
           /\ now' = now + d1 + d2
           /\ db' = o.tables
           /\ rand' = IF o.err = "SessionRenewalError" THEN rand ELSE rand + 2
           /\ racer' = [racer EXCEPT ![p].at = "returned",
                                     ![p].order = Returned + 1,
                                     ![p].err = o.err,
                                     ![p].ret = o.ret]
           /\ last' = Did("renew", "knex", o.err)
  /\ UNCHANGED <<calls, mig, heldUsers, trx, autoinc, held, pc, cb>>

Tick ==
  /\ now < MaxTime
  /\ now' = now + 1
  /\ UNCHANGED <<calls, mig, heldUsers, db, trx, autoinc, rand, held, last, pc, cb, racer>>

----------------------------------------------------------------------------
(* Identity.atomicOperation over knex's db.transaction(handler): BEGIN,    *)
(* the handler, then COMMIT when the handler's promise resolves, ROLLBACK  *)
(* when it rejects, and only then the settling of the caller's promise.    *)

NoCallback == [began |-> FALSE, pre |-> EmptyTables, log |-> <<>>, err |-> "none"]

(* The working tables of a transaction opened on handle h. *)
Begin(h) == Append(trx, View(h))

(* Mutant: the guard is missing. *)
NestedUnchecked(h) == FALSE

(* The guard of atomicOperation: this.db.isTransaction. *)
Nested(h) == isTransaction(h)

AtomicOperation(h) ==
  /\ Usable(h)
  /\ IF Nested(h)
       THEN /\ last' = Call("atomicOperation", h, Null, Null, 0, 0, now,
                            NoRow, "IdentityNestedAtomicOperationError",
                            NoSession)
            /\ UNCHANGED <<db, trx, pc, cb>>
       ELSE /\ isTransaction(h) \/ ~cb.began
            /\ trx' = Begin(h)
            /\ pc' = "callback"
            /\ cb' = [NoCallback EXCEPT !.began = TRUE, !.pre = View(h)]
            /\ UNCHANGED <<db, last>>
  /\ UNCHANGED <<calls, mig, heldUsers, now, autoinc, rand, held, racer>>

CallbackErrors == {"Error", last.err} \ {"none"}

CallbackReturns ==
  /\ pc = "callback"
  /\ pc' = "resolved"
  /\ UNCHANGED <<calls, mig, heldUsers, now, db, trx, autoinc, rand, held, last, cb, racer>>

CallbackThrows(e) ==
  /\ pc = "callback"
  /\ pc' = "rejected"
  /\ cb' = [cb EXCEPT !.err = e]
  /\ UNCHANGED <<calls, mig, heldUsers, now, db, trx, autoinc, rand, held, last, racer>>

(* Mutant: the rollback keeps the session writes of the callback. *)
RolledBackInPart(top) == [db EXCEPT !.sessions = top.sessions]

(* What COMMIT and ROLLBACK leave committed. *)
Committed(top) == top
RolledBack(top) == db

Commit ==
  /\ pc = "resolved"
  /\ db' = Committed(trx[Len(trx)])
  /\ trx' = SubSeq(trx, 1, Len(trx) - 1)
  /\ pc' = "committed"
  /\ UNCHANGED <<calls, mig, heldUsers, now, autoinc, rand, held, last, cb, racer>>

Rollback ==
  /\ pc = "rejected"
  /\ db' = RolledBack(trx[Len(trx)])
  /\ trx' = SubSeq(trx, 1, Len(trx) - 1)
  /\ pc' = "rolledback"
  /\ UNCHANGED <<calls, mig, heldUsers, now, autoinc, rand, held, last, cb, racer>>

(* Mutant: the promise rejects as soon as the callback has thrown. *)
SettlesEarly(p) == p \in {"committed", "rejected", "rolledback"}

(* When the promise atomicOperation awaits settles, and with what. *)
Settles(p) == p \in {"committed", "rolledback"}
Rejection(e) == e

(* Objects of the transaction-scoped Identity do not outlive the callback. *)
Settle ==
  /\ Settles(pc)
  /\ pc' = "idle"
  /\ last' = Call("atomicOperation", "knex", Null, Null, 0, 0, now, NoRow,
                  Rejection(cb.err), NoSession)
  /\ held' = [s \in Slots |->
                IF isTransaction(held[s].db) THEN NoSession ELSE held[s]]
  /\ UNCHANGED <<calls, mig, heldUsers, now, db, trx, autoinc, rand, cb, racer>>

----------------------------------------------------------------------------
(* Schema: the migration engine, the schemas the library ships and the     *)
(* schema of the engine's own test.                                        *)

(* The statements of the migration bodies, each with the tables that the   *)
(* foreign keys of the created table reference.                            *)
createTable(tableName, references) ==
  [stmt |-> "createTable", table |-> tableName, references |-> references]

dropTable(tableName) ==
  [stmt |-> "dropTable", table |-> tableName, references |-> {}]

dropTableIfExists(tableName) ==
  [stmt |-> "dropTableIfExists", table |-> tableName, references |-> {}]

Migration(up, down) == [up |-> up, down |-> down]

Schema(migrationTable, migrations) ==
  [migrationTable |-> migrationTable, migrations |-> migrations]

user_schema ==
  Schema("user_schema",
         <<Migration(createTable("user_accounts", {}),
                     dropTableIfExists("user_accounts")),
           Migration(createTable("user_data", {"user_accounts"}),
                     dropTableIfExists("user_data")),
           Migration(createTable("user_data_search_keys",
                                 {"user_accounts", "user_data"}),
                     dropTableIfExists("user_data_search_keys"))>>)

group_schema ==
  Schema("group_schema",
         <<Migration(createTable("group_names", {}),
                     dropTableIfExists("group_names")),
           Migration(createTable("group_members",
                                 {"group_names", "user_accounts"}),
                     dropTableIfExists("group_names"))>>)

session_schema ==
  Schema("session_schema",
         <<Migration(createTable("session_tokens", {"user_accounts"}),
                     dropTableIfExists("session_tokens"))>>)

test_schema ==
  Schema("test_schema",
         <<Migration(createTable("test_table_1", {}),
                     dropTable("test_table_1")),
           Migration(createTable("test_table_2", {"test_table_1"}),
                     dropTable("test_table_2"))>>)

(* The Schema of a release that knew only the first migration of           *)
(* test_schema, over the same migration table.                             *)
older_schema ==
  Schema(test_schema.migrationTable, SubSeq(test_schema.migrations, 1, 1))

Shipped == {user_schema, group_schema, session_schema}

MigrationTables ==
  {s.migrationTable : s \in Shipped \cup {test_schema, older_schema}}

(* What a statement of a migration body does to the tables of the          *)
(* database, and the error it rejects with.  Any statement can fail on the *)
(* connection.  A foreign key to a missing table, and the drop of a table  *)
(* that a foreign key references, are rejected when the server checks      *)
(* foreign keys and pass when it does not (foreign_key_checks, engine).    *)
Ran(err, tables) == [err |-> err, tables |-> tables]

Execute(tables, s) ==
  LET present == \E t \in tables : t.table = s.table
      parent == \E t \in tables : s.table \in t.references
      orphan == \E n \in s.references : ~(\E t \in tables : t.table = n)
      created == tables \cup {[table |-> s.table,
                               references |-> s.references]}
      dropped == {t \in tables : t.table # s.table}
  IN  {Ran("PROTOCOL_CONNECTION_LOST", tables)} \cup
      CASE s.stmt = "createTable" ->
             IF present
               THEN {Ran("ER_TABLE_EXISTS_ERROR", tables)}
               ELSE {Ran("none", created)} \cup
                    {Ran("ER_CANNOT_ADD_FOREIGN", tables) : x \in
                       {n \in s.references : orphan}}
        [] s.stmt = "dropTable" /\ ~present ->
             {Ran("ER_BAD_TABLE_ERROR", tables)}
        [] s.stmt = "dropTableIfExists" /\ ~present ->
             {Ran("none", tables)}
        [] OTHER ->
             {Ran("none", dropped)} \cup
             {Ran("ER_FK_CANNOT_DROP_PARENT", tables) : x \in
                {t \in tables : parent}}

(* A migration table: whether it exists, and the migration_number of each  *)
(* of its rows.                                                            *)
MigrationTable(exists, rows) == [exists |-> exists, rows |-> rows]

NoTable == MigrationTable(FALSE, <<>>)

(* What a method made of the migration tables: the value it returns, the   *)
(* tables after it, and the number of statements that wrote to them.       *)
Got(ret, rows, writes) == [ret |-> ret, rows |-> rows, writes |-> writes]

(* Mutant: the row is inserted twice. *)
createMigrationTableTwoRows(rows, this) ==
  [rows EXCEPT ![this.migrationTable] = MigrationTable(TRUE, <<0, 0>>)]

createMigrationTable(rows, this) ==
  [rows EXCEPT ![this.migrationTable] = MigrationTable(TRUE, <<0>>)]

getCurrentMigrationNumber(rows, this) ==
  IF ~rows[this.migrationTable].exists
    THEN Got(0, createMigrationTable(rows, this), 2)
    ELSE Got(rows[this.migrationTable].rows[1], rows, 0)

(* UPDATE migration_number without a WHERE clause: every row is written.   *)
Updated(rows, this, n) ==
  [rows EXCEPT ![this.migrationTable].rows = [i \in DOMAIN @ |-> n]]

(* Mutant: the cursor is read and not written. *)
incrementCurrentMigrationNumberUnwritten(rows, this) ==
  getCurrentMigrationNumber(rows, this)

incrementCurrentMigrationNumber(rows, this) ==
  LET g == getCurrentMigrationNumber(rows, this)
  IN  Got(0, Updated(g.rows, this, g.ret + 1), g.writes + 1)

decrementCurrentMigrationNumber(rows, this) ==
  LET g == getCurrentMigrationNumber(rows, this)
  IN  IF g.ret = 0 THEN Got(0, g.rows, g.writes)
                   ELSE Got(0, Updated(g.rows, this, g.ret - 1), g.writes + 1)

(* What an up() that returned true found, kept for the down() of the same  *)
(* Schema that is called next: the tables and the migration table.         *)
NoUp == [up |-> FALSE, found |-> {}, start |-> MigrationTable(FALSE, <<>>)]

(* The Schema call in flight, or the last one that settled: the method,    *)
(* the instance, the position in it, the migration table as the call found *)
(* it, the migration bodies it has invoked, the statements it has written  *)
(* to the migration table with, and how it settled; the tables the call    *)
(* found, and the up() that it undoes.                                     *)
SchemaCall(op, this, at, start, ran, writes, err, ret) ==
  [op |-> op, this |-> this, at |-> at, start |-> start, ran |-> ran,
   writes |-> writes, err |-> err, ret |-> ret, found |-> {}, undoes |-> NoUp]

NoSchemaCall ==
  SchemaCall("none", test_schema, "idle", NoTable, <<>>, 0, "none",
             "undefined")

Body(index, direction) == [index |-> index, direction |-> direction]

(* build and teardown call up and down until one returns false. *)
Loops(op) == op \in {"build", "teardown"}

Undoes(c, this, op) ==
  IF op = "down" /\ c.op = "up" /\ c.this = this /\ c.ret = "true"
    THEN [up |-> TRUE, found |-> c.found, start |-> c.start]
    ELSE NoUp

Called(this, op) ==
  /\ pc = "idle"
  /\ mig.call.at \in {"idle", "done"}
  /\ mig' = [mig EXCEPT !.call =
               [SchemaCall(op, this, "step", mig.rows[this.migrationTable],
                           <<>>, 0, "none", "pending")
                  EXCEPT !.found = mig.tables,
                         !.undoes = Undoes(mig.call, this, op)]]
  /\ UNCHANGED <<calls, now, db, trx, autoinc, rand, held, last, pc, cb, racer,
                 heldUsers>>

Up(this) == Called(this, "up")

Down(this) == Called(this, "down")

Build(this) == Called(this, "build")

Teardown(this) == Called(this, "teardown")

(* up and down returning false: the call is over, the loop ends.           *)
ReturnsFalse(c) ==
  [c EXCEPT !.at = "done", !.ret = IF Loops(c.op) THEN "undefined" ELSE "false"]

(* Mutant: up and down catch the rejection and return false. *)
ThrownCaught(c, err) == ReturnsFalse(c)

(* The rejection of a migration body: up and down await the body without   *)
(* a try, build and teardown await them without one, so the call rejects   *)
(* with it.                                                                *)
Thrown(c, err) == [c EXCEPT !.at = "done", !.err = err]

(* Mutant: build and teardown call up, or down, once. *)
ReturnsTrueOnce(c) == [c EXCEPT !.at = "done", !.ret = "true"]

(* up and down returning true: the call is over, the loop goes round.      *)
ReturnsTrue(c) ==
  IF Loops(c.op) THEN [c EXCEPT !.at = "step"]
                 ELSE [c EXCEPT !.at = "done", !.ret = "true"]

(* Mutant: past the last migration, up picks the last one again. *)
nextMigrationClamped(this, n) ==
  IF n + 1 \in DOMAIN this.migrations THEN n ELSE Len(this.migrations) - 1

(* The migration body that up, or down, picks at cursor n: its index, or   *)
(* -1 when it returns false.                                               *)
nextMigration(this, n) ==
  IF n + 1 \in DOMAIN this.migrations THEN n ELSE -1

(* Mutant: past the migrations it knows, down picks the last one. *)
previousMigrationClamped(this, n) ==
  IF n - 1 < 0 THEN -1
  ELSE IF n \in DOMAIN this.migrations THEN n - 1
       ELSE Len(this.migrations) - 1

(* Mutant: down stops at the first migration instead of before it. *)
previousMigrationOffByOne(this, n) ==
  IF n - 1 <= 0 THEN -1
  ELSE IF n \in DOMAIN this.migrations THEN n - 1 ELSE -1

previousMigration(this, n) ==
  LET previousMigrationIndex == n - 1
  IN  IF previousMigrationIndex < 0 THEN -1
      ELSE IF previousMigrationIndex + 1 \in DOMAIN this.migrations
             THEN previousMigrationIndex
             ELSE -1

(* The migrations applied to the schema of each migration table: those    *)
(* whose up body has resolved and whose down body has not resolved since.  *)
Applied(applied, this, index, direction, o) ==
  IF o.err # "none" THEN applied
  ELSE [applied EXCEPT ![this.migrationTable] =
          IF direction = "up" THEN @ \cup {index} ELSE @ \ {index}]

(* up, to the settling of the migration body. *)
UpRuns ==
  LET c == mig.call
      g == getCurrentMigrationNumber(mig.rows, c.this)
      i == nextMigration(c.this, g.ret)
  IN  /\ c.at = "step"
      /\ c.op \in {"up", "build"}
      /\ IF i < 0
           THEN mig' = [mig EXCEPT
                          !.rows = g.rows,
                          !.call = ReturnsFalse([c EXCEPT
                                                   !.writes = @ + g.writes])]
           ELSE \E o \in Execute(mig.tables, c.this.migrations[i + 1].up) :
                  LET d == [c EXCEPT !.ran = Append(@, Body(i, "up")),
                                     !.writes = @ + g.writes]
                  IN  mig' = [mig EXCEPT
                                !.rows = g.rows,
                                !.tables = o.tables,
                                !.applied = Applied(@, c.this, i, "up", o),
                                !.call = IF o.err = "none"
                                           THEN [d EXCEPT !.at = "body"]
                                           ELSE Thrown(d, o.err)]
      /\ UNCHANGED <<calls, now, db, trx, autoinc, rand, held, last, pc, cb, racer,
                     heldUsers>>

(* up, from there on. *)
UpIncrements ==
  LET c == mig.call
      g == incrementCurrentMigrationNumber(mig.rows, c.this)
  IN  /\ c.at = "body"
      /\ c.op \in {"up", "build"}
      /\ mig' = [mig EXCEPT
                   !.rows = g.rows,
                   !.call = ReturnsTrue([c EXCEPT !.writes = @ + g.writes])]
      /\ UNCHANGED <<calls, now, db, trx, autoinc, rand, held, last, pc, cb, racer,
                     heldUsers>>

(* down, to the settling of the migration body. *)
DownRuns ==
  LET c == mig.call
      g == getCurrentMigrationNumber(mig.rows, c.this)
      i == previousMigration(c.this, g.ret)
  IN  /\ c.at = "step"
      /\ c.op \in {"down", "teardown"}
      /\ IF i < 0
           THEN mig' = [mig EXCEPT
                          !.rows = g.rows,
                          !.call = ReturnsFalse([c EXCEPT
                                                   !.writes = @ + g.writes])]
           ELSE \E o \in Execute(mig.tables, c.this.migrations[i + 1].down) :
                  LET d == [c EXCEPT !.ran = Append(@, Body(i, "down")),
                                     !.writes = @ + g.writes]
                  IN  mig' = [mig EXCEPT
                                !.rows = g.rows,
                                !.tables = o.tables,
                                !.applied = Applied(@, c.this, i, "down", o),
                                !.call = IF o.err = "none"
                                           THEN [d EXCEPT !.at = "body"]
                                           ELSE Thrown(d, o.err)]
      /\ UNCHANGED <<calls, now, db, trx, autoinc, rand, held, last, pc, cb, racer,
                     heldUsers>>

(* down, from there on. *)
DownDecrements ==
  LET c == mig.call
      g == decrementCurrentMigrationNumber(mig.rows, c.this)
  IN  /\ c.at = "body"
      /\ c.op \in {"down", "teardown"}
      /\ mig' = [mig EXCEPT
                   !.rows = g.rows,
                   !.call = ReturnsTrue([c EXCEPT !.writes = @ + g.writes])]
      /\ UNCHANGED <<calls, now, db, trx, autoinc, rand, held, last, pc, cb, racer,
                     heldUsers>>

----------------------------------------------------------------------------
(* User: the objects UserAdmin.get and UserAdmin.fromSession return, and   *)
(* their login and logout on a Session.  The groups an object lists are    *)
(* left out: login and logout do not read them.                            *)

UserSlots == {"x", "y"}

Passwords == {1, 2}

(* bcrypt.hash and bcrypt.compare: the digest is not the password, and     *)
(* only the password it was made from compares equal to it.                *)
hash(password) == 10 * password

compare(password, digest) == digest = hash(password)

User(h, id, username, authenticated) ==
  [db |-> h, id |-> id, username |-> username,
   authenticated |-> authenticated]

NoUser == User("knex", Null, "", FALSE)

Gave(err, user) == [err |-> err, user |-> user]

get(t, h, username) ==
  LET userResult == {u \in t.users : u.username = username}
  IN  IF userResult = {}
        THEN Gave("UserInvalidError", NoUser)
        ELSE Gave("none",
                  User(h, (CHOOSE u \in userResult : TRUE).id, username,
                       FALSE))

(* Mutant: the principal is read from the stored record. *)
fromSessionStored(t, h, session) ==
  LET stored == {r.userId : r \in {q \in t.sessions : q.id = session.id}}
      userResult == {u \in t.users : u.id \in stored}
  IN  IF stored \subseteq {Null}
        THEN Gave("UserAuthenticationError", NoUser)
        ELSE IF userResult = {}
          THEN Gave("UserInvalidError", NoUser)
          ELSE Gave("none",
                    User(h, (CHOOSE u \in userResult : TRUE).id,
                         (CHOOSE u \in userResult : TRUE).username, TRUE))

fromSession(t, h, session) ==
  LET userId == session.userId
      userResult == {u \in t.users : u.id = userId}
  IN  IF userId = Null
        THEN Gave("UserAuthenticationError", NoUser)
        ELSE IF userResult = {}
          THEN Gave("UserInvalidError", NoUser)
          ELSE Gave("none",
                    User(h, userId,
                         (CHOOSE u \in userResult : TRUE).username, TRUE))

setPassword(t, this, password) ==
  [t EXCEPT !.users =
     {IF u.id = this.id THEN [u EXCEPT !.password = hash(password)] ELSE u
        : u \in t.users}]

Verified(err, ret) == [err |-> err, ret |-> ret]

verifyPassword(t, this, password) ==
  LET userResult == {u \in t.users : u.id = this.id}
      digest == (CHOOSE u \in userResult : TRUE).password
  IN  IF userResult = {}
        THEN Verified("UserInvalidError", FALSE)
        ELSE IF digest = Null
          THEN Verified("none", FALSE)
          ELSE Verified("none", compare(password, digest))

(* Mutant: the flag is set before the password is verified. *)
authenticateEager(t, this, password) ==
  LET v == verifyPassword(t, this, password)
      that == [this EXCEPT !.authenticated = TRUE]
  IN  IF v.err # "none"
        THEN Gave(v.err, that)
        ELSE IF ~v.ret
          THEN Gave("UserAuthenticationError", that)
          ELSE Gave("none", that)

authenticate(t, this, password) ==
  LET v == verifyPassword(t, this, password)
  IN  IF v.err # "none"
        THEN Gave(v.err, this)
        ELSE IF ~v.ret
          THEN Gave("UserAuthenticationError", this)
          ELSE Gave("none", [this EXCEPT !.authenticated = TRUE])

Settled(err, user, session, tables) ==
  [err |-> err, user |-> user, session |-> session, tables |-> tables]

login(t, this, session, password) ==
  LET a == authenticate(t, this, password)
      o == setUserId(t, session, this.id)
  IN  IF a.err # "none"
        THEN Settled(a.err, a.user, session, t)
        ELSE Settled(o.err, a.user, o.ret, o.tables)

(* Mutant: the session is not compared with the user. *)
logoutAnySession(t, this, session) ==
  LET o == discardUserId(t, session)
  IN  IF ~this.authenticated
        THEN Settled("UserAuthenticationError", this, session, t)
        ELSE IF o.err # "none"
          THEN Settled(o.err, this, o.ret, o.tables)
          ELSE Settled("none", [this EXCEPT !.authenticated = FALSE],
                       o.ret, o.tables)

logout(t, this, session) ==
  LET o == discardUserId(t, session)
  IN  IF ~this.authenticated
        THEN Settled("UserAuthenticationError", this, session, t)
        ELSE IF session.userId # this.id
          THEN Settled("SessionInvalidError", this, session, t)
          ELSE IF o.err # "none"
            THEN Settled(o.err, this, o.ret, o.tables)
            ELSE Settled("none", [this EXCEPT !.authenticated = FALSE],
                         o.ret, o.tables)

(* The caller keeps the User a call returns in variable x. *)
UserGet(username, x) ==
  LET o == get(db, "knex", username) IN
  /\ pc = "idle"
  /\ heldUsers' = IF o.err = "none" THEN [heldUsers EXCEPT ![x] = o.user]
                                    ELSE heldUsers
  /\ last' = Did("user.get", "knex", o.err)
  /\ UNCHANGED <<calls, now, db, trx, autoinc, rand, held, pc, cb, racer, mig>>

FromSession(s, x) ==
  LET o == fromSession(db, "knex", held[s]) IN
  /\ pc = "idle"
  /\ held[s] # NoSession
  /\ heldUsers' = IF o.err = "none" THEN [heldUsers EXCEPT ![x] = o.user]
                                    ELSE heldUsers
  /\ last' = Did("user.fromSession", "knex", o.err)
  /\ UNCHANGED <<calls, now, db, trx, autoinc, rand, held, pc, cb, racer, mig>>

SetPassword(x, password) ==
  /\ pc = "idle"
  /\ heldUsers[x] # NoUser
  /\ db' = setPassword(db, heldUsers[x], password)
  /\ last' = Did("setPassword", "knex", "none")
  /\ UNCHANGED <<calls, now, trx, autoinc, rand, held, pc, cb, racer, mig,
                 heldUsers>>

Login(x, s, password) ==
  LET o == login(db, heldUsers[x], held[s], password) IN
  /\ pc = "idle"
  /\ heldUsers[x] # NoUser
  /\ held[s] # NoSession
  /\ db' = o.tables
  /\ heldUsers' = [heldUsers EXCEPT ![x] = o.user]
  /\ held' = Assigned(s, o.session)
  /\ last' = Did("login", "knex", o.err)
  /\ UNCHANGED <<calls, now, trx, autoinc, rand, pc, cb, racer, mig>>

Logout(x, s) ==
  LET o == logout(db, heldUsers[x], held[s]) IN
  /\ pc = "idle"
  /\ heldUsers[x] # NoUser
  /\ held[s] # NoSession
  /\ db' = o.tables
  /\ heldUsers' = [heldUsers EXCEPT ![x] = o.user]
  /\ held' = Assigned(s, o.session)
  /\ last' = Did("logout", "knex", o.err)
  /\ UNCHANGED <<calls, now, trx, autoinc, rand, pc, cb, racer, mig>>

----------------------------------------------------------------------------
(* Group: the members of a group, listed and removed, for the Group and    *)
(* User objects of the rows with these ids.                                *)

MaxMembers == 3

(* SELECT user_accounts.username FROM group_members LEFT JOIN              *)
(* user_accounts: the query has no WHERE clause.                           *)
listMembers(t, this) ==
  {u.username : u \in {v \in t.users : \E m \in t.members : m.userId = v.id}}

(* Mutant: the DELETE is not restricted to the group. *)
removeMemberEverywhere(t, groupId, userId) ==
  IF ~hasMember(t, groupId, userId)
    THEN Result("GroupNotAMemberError", NoSession, t)
    ELSE Result("none", NoSession,
                [t EXCEPT !.members = {m \in t.members : m.userId # userId}])

removeMember(t, groupId, userId) ==
  IF ~hasMember(t, groupId, userId)
    THEN Result("GroupNotAMemberError", NoSession, t)
    ELSE Result("none", NoSession,
                [t EXCEPT !.members =
                   {m \in t.members :
                      ~(m.userId = userId /\ m.groupId = groupId)}])

(* What the last listMembers returned, and the group it was called on. *)
Listed(groupId, usernames) == [group |-> groupId, usernames |-> usernames]

(* An addMember call in flight: between its membership check and its     *)
(* insert.                                                                 *)
Adder(at, groupId, userId) == [at |-> at, group |-> groupId, user |-> userId]

NoAdder == Adder("idle", Null, Null)

(* What a route guard did with a request: "next" when it called next(),   *)
(* "sent" when it sent the error response, and the error it answered.      *)
Responded(status, err, session, user, tables) ==
  [status |-> status, err |-> err, session |-> session, user |-> user,
   tables |-> tables]

Request(guard, token, status, err) ==
  [guard |-> guard, token |-> token, status |-> status, err |-> err]

NoRequest == Request("none", Null, "none", "none")

(* What the last setItems or getItems did: the transactions that were     *)
(* open while its statements ran, and the values it returned.              *)
Items(op, depth, values) == [op |-> op, depth |-> depth, values |-> values]

NoItems == Items("none", 0, {})

(* A build() in flight: the statement it is about to send, whether for    *)
(* up() or for incrementCurrentMigrationNumber(), the migration number it  *)
(* read last, the bodies it has invoked, the error it rejected with, and   *)
(* whether it found the migration table without a row.                     *)
Builder(at, for, n, ran, err, empty) ==
  [at |-> at, for |-> for, n |-> n, ran |-> ran, err |-> err, empty |-> empty]

NoBuilder == Builder("idle", "up", 0, <<>>, "none", FALSE)

NoCalls ==
  [listed |-> Listed(Null, {}), adders |-> [p \in Procs |-> NoAdder],
   request |-> NoRequest, items |-> NoItems,
   builders |-> [p \in Procs |-> NoBuilder]]

ListMembers(groupId) ==
  /\ pc = "idle"
  /\ \E g \in db.groups : g.id = groupId
  /\ calls' = [calls EXCEPT !.listed = Listed(groupId, listMembers(db, groupId))]
  /\ last' = Did("group.listMembers", "knex", "none")
  /\ UNCHANGED <<now, db, trx, autoinc, rand, held, pc, cb, racer, mig,
                 heldUsers>>

(* The INSERT of addMember, with the foreign keys of group_members. *)
insertMember(t, id, groupId, userId) ==
  IF ~(\E g \in t.groups : g.id = groupId) \/ ~(\E u \in t.users : u.id = userId)
    THEN Result("ER_NO_REFERENCED_ROW", NoSession, t)
    ELSE Result("none", NoSession,
                [t EXCEPT !.members = @ \cup {MemberRow(id, groupId, userId)}])

(* addMember of caller p awaits hasMember: it throws, or goes on to the    *)
(* insert.                                                                 *)
AddMemberChecks(p, groupId, userId) ==
  /\ pc = "idle"
  /\ calls.adders[p] = NoAdder
  /\ IF hasMember(db, groupId, userId)
       THEN /\ last' = Did("group.addMember", "knex", "GroupHasMemberError")
            /\ calls' = calls
       ELSE /\ calls' = [calls EXCEPT
                           !.adders[p] = Adder("insert", groupId, userId)]
            /\ last' = last
  /\ UNCHANGED <<now, db, trx, autoinc, rand, held, pc, cb, racer, mig,
                 heldUsers>>

AddMemberInserts(p) ==
  LET a == calls.adders[p]
      o == insertMember(db, autoinc.members, a.group, a.user) IN
  /\ pc = "idle"
  /\ a.at = "insert"
  /\ db' = o.tables
  /\ autoinc' = IF o.err = "none" THEN [autoinc EXCEPT !.members = @ + 1]
                                  ELSE autoinc
  /\ calls' = [calls EXCEPT !.adders[p] = NoAdder]
  /\ last' = Did("group.addMember", "knex", o.err)
  /\ UNCHANGED <<now, trx, rand, held, pc, cb, racer, mig, heldUsers>>

RemoveMember(groupId, userId) ==
  LET o == removeMember(db, groupId, userId) IN
  /\ pc = "idle"
  /\ db' = o.tables
  /\ last' = Did("group.removeMember", "knex", o.err)
  /\ UNCHANGED <<now, trx, autoinc, rand, held, pc, cb, racer, mig,
                 heldUsers, calls>>

----------------------------------------------------------------------------
(* User: the items of a user, of type string and not indexed, set and got  *)
(* through the handle of the User object.                                  *)

Values == {"v1", "v2"}

DataRow(userId, key, value) == [userId |-> userId, key |-> key, value |-> value]

(* updateItems(db): the DELETE and the INSERT for one key. *)
updateItems(t, this, key, value) ==
  IF ~(\E u \in t.users : u.id = this.id)
    THEN Result("ER_NO_REFERENCED_ROW", NoSession, t)
    ELSE Result("none", NoSession,
                [t EXCEPT !.data =
                   {d \in t.data : ~(d.userId = this.id /\ d.key = key)}
                     \cup {DataRow(this.id, key, value)}])

(* Mutant: setItems always opens a transaction. *)
ownTransactionAlways(h) == TRUE

(* setItems, the branch on this.db.isTransaction: whether it opens a       *)
(* transaction of its own.                                                 *)
ownTransaction(h) == ~isTransaction(h)

getItems(t, this, key) ==
  {d.value : d \in {e \in t.data : e.userId = this.id /\ e.key = key}}

(* user.get on the Identity of handle h; the caller keeps the User. *)
UserGetOn(h, username, x) ==
  LET o == get(View(h), h, username) IN
  /\ Usable(h)
  /\ heldUsers' = IF o.err = "none" THEN [heldUsers EXCEPT ![x] = o.user]
                                    ELSE heldUsers
  /\ last' = Did("user.get", h, o.err)
  /\ UNCHANGED <<now, db, trx, autoinc, rand, held, pc, cb, racer, mig, calls>>

(* setItems: in the transaction of the handle, or in one of its own that   *)
(* commits when updateItems returns and rolls back when it throws.         *)
SetItems(x, key, value) ==
  LET this == heldUsers[x]
      h == this.db
      o == updateItems(View(h), this, key, value) IN
  /\ this # NoUser
  /\ Usable(h) /\ Room(h)
  /\ Store(h, o.tables)
  /\ cb' = Logged(h, View(h), o.tables)
  /\ calls' = [calls EXCEPT
                 !.items = Items("setItems",
                                 Len(trx) + (IF ownTransaction(h) THEN 1 ELSE 0),
                                 {})]
  /\ last' = Did("setItems", h, o.err)
  /\ UNCHANGED <<now, autoinc, rand, held, pc, racer, mig, heldUsers>>

GetItems(x, key) ==
  LET this == heldUsers[x]
      h == this.db IN
  /\ this # NoUser
  /\ Usable(h)
  /\ calls' = [calls EXCEPT
                 !.items = Items("getItems", Len(trx),
                                 getItems(View(h), this, key))]
  /\ last' = Did("getItems", h, "none")
  /\ UNCHANGED <<now, db, trx, autoinc, rand, held, pc, cb, racer, mig,
                 heldUsers>>

----------------------------------------------------------------------------
(* Schema.build() of test_schema by two callers on one database, statement *)
(* by statement: each await of build, up, getCurrentMigrationNumber,       *)
(* createMigrationTable and incrementCurrentMigrationNumber lets the other *)
(* caller run.  The connection holds.                                      *)

(* getCurrentMigrationNumber has returned n to up() or to                  *)
(* incrementCurrentMigrationNumber().                                      *)
Numbered(b, this, n) ==
  IF b.for = "increment"
    THEN [b EXCEPT !.at = "update", !.n = n]
    ELSE IF nextMigration(this, n) < 0
      THEN [b EXCEPT !.at = "done", !.n = n]
      ELSE [b EXCEPT !.at = "body", !.n = n]

BuildCalled(p) ==
  /\ pc = "idle"
  /\ calls.builders[p].at = "idle"
  /\ calls' = [calls EXCEPT !.builders[p].at = "hasTable"]
  /\ UNCHANGED <<now, db, trx, autoinc, rand, held, last, pc, cb, racer, mig,
                 heldUsers>>

BuildHasTable(p, this) ==
  /\ calls.builders[p].at = "hasTable"
  /\ calls' = [calls EXCEPT
                 !.builders[p].at = IF mig.rows[this.migrationTable].exists
                                      THEN "select" ELSE "createTable"]
  /\ UNCHANGED <<now, db, trx, autoinc, rand, held, last, pc, cb, racer, mig,
                 heldUsers>>

BuildCreatesTable(p, this) ==
  /\ calls.builders[p].at = "createTable"
  /\ IF mig.rows[this.migrationTable].exists
       THEN /\ calls' = [calls EXCEPT
                           !.builders[p].at = "done",
                           !.builders[p].err = "ER_TABLE_EXISTS_ERROR"]
            /\ mig' = mig
       ELSE /\ calls' = [calls EXCEPT !.builders[p].at = "insert"]
            /\ mig' = [mig EXCEPT !.rows[this.migrationTable] =
                                    MigrationTable(TRUE, <<>>)]
  /\ UNCHANGED <<now, db, trx, autoinc, rand, held, last, pc, cb, racer,
                 heldUsers>>

BuildInserts(p, this) ==
  /\ calls.builders[p].at = "insert"
  /\ mig' = [mig EXCEPT !.rows[this.migrationTable].rows = Append(@, 0)]
  /\ calls' = [calls EXCEPT
                 !.builders[p] = Numbered(calls.builders[p], this, 0)]
  /\ UNCHANGED <<now, db, trx, autoinc, rand, held, last, pc, cb, racer,
                 heldUsers>>

(* results[0].migration_number: a TypeError when the table has no row. *)
BuildSelects(p, this) ==
  LET results == mig.rows[this.migrationTable].rows IN
  /\ calls.builders[p].at = "select"
  /\ calls' = IF results = <<>>
                THEN [calls EXCEPT !.builders[p].at = "done",
                                   !.builders[p].err = "TypeError",
                                   !.builders[p].empty = TRUE]
                ELSE [calls EXCEPT
                        !.builders[p] =
                          Numbered(calls.builders[p], this, results[1])]
  /\ UNCHANGED <<now, db, trx, autoinc, rand, held, last, pc, cb, racer, mig,
                 heldUsers>>

BuildRuns(p, this) ==
  LET b == calls.builders[p] IN
  /\ b.at = "body"
  /\ \E o \in Execute(mig.tables, this.migrations[b.n + 1].up) :
       /\ o.err # "PROTOCOL_CONNECTION_LOST"
       /\ mig' = [mig EXCEPT !.tables = o.tables]
       /\ calls' = [calls EXCEPT
                      !.builders[p] =
                        IF o.err = "none"
                          THEN [b EXCEPT !.at = "hasTable",
                                         !.for = "increment",
                                         !.ran = Append(@, b.n)]
                          ELSE [b EXCEPT !.at = "done", !.err = o.err,
                                         !.ran = Append(@, b.n)]]
  /\ UNCHANGED <<now, db, trx, autoinc, rand, held, last, pc, cb, racer,
                 heldUsers>>

BuildUpdates(p, this) ==
  LET b == calls.builders[p] IN
  /\ b.at = "update"
  /\ mig' = [mig EXCEPT !.rows = Updated(@, this, b.n + 1)]
  /\ calls' = [calls EXCEPT !.builders[p].at = "hasTable",
                            !.builders[p].for = "up"]
  /\ UNCHANGED <<now, db, trx, autoinc, rand, held, last, pc, cb, racer,
                 heldUsers>>

----------------------------------------------------------------------------
(* The route guards requireLogin, requireAnyGroup and requireAllGroups of  *)
(* a request that carries a bearer token and no session of an earlier      *)
(* guard.                                                                  *)

Guards == {"requireLogin", "requireAnyGroup", "requireAllGroups"}

(* What fromSession caches for user.listGroups(). *)
listGroups(t, userId) ==
  {g.name : g \in {x \in t.groups : hasMember(t, x.id, userId)}}

userIsAuthorized(guard, groups, userGroups) ==
  CASE guard = "requireLogin" -> TRUE
    [] guard = "requireAnyGroup" -> groups \cap userGroups # {}
    [] guard = "requireAllGroups" -> groups \subseteq userGroups

(* Mutant: the lifetime is updated once the request has been accepted. *)
requireUpdatesLast(t, h, guard, groups, update, token, clock) ==
  LET o == open(t, h, token, clock)
      user == fromSession(t, h, o.ret)
      up == IF update
              THEN updateLifetime(t, o.ret, Lifetime(1), Lifetime(2), clock)
              ELSE Result("none", o.ret, t)
  IN  IF o.err # "none"
        THEN Responded("sent", o.err, NoSession, NoUser, t)
        ELSE IF user.err # "none"
          THEN Responded("sent", user.err, NoSession, NoUser, t)
          ELSE IF ~userIsAuthorized(guard, groups, listGroups(t, user.user.id))
            THEN Responded("sent", "GroupNotAMemberError", NoSession, NoUser, t)
            ELSE Responded("next", "none", up.ret, user.user, up.tables)

require(t, h, guard, groups, update, token, clock) ==
  LET o == open(t, h, token, clock)
      up == IF update
              THEN updateLifetime(t, o.ret, Lifetime(1), Lifetime(2), clock)
              ELSE Result("none", o.ret, t)
      user == fromSession(up.tables, h, up.ret)
  IN  IF o.err # "none"
        THEN Responded("sent", o.err, NoSession, NoUser, t)
        ELSE IF user.err # "none"
          THEN Responded("sent", user.err, NoSession, NoUser, up.tables)
          ELSE IF ~userIsAuthorized(guard, groups,
                                    listGroups(up.tables, user.user.id))
            THEN Responded("sent", "GroupNotAMemberError", NoSession, NoUser,
                           up.tables)
            ELSE Responded("next", "none", up.ret, user.user, up.tables)

(* One request through a guard on the pool's Identity. *)
Require(guard, groups, update, token) ==
  LET o == require(db, "knex", guard, groups, update, token, now) IN
  /\ pc = "idle"
  /\ db' = o.tables
  /\ calls' = [calls EXCEPT !.request = Request(guard, token, o.status, o.err)]
  /\ last' = Did(guard, "knex", o.err)
  /\ UNCHANGED <<now, trx, autoinc, rand, held, pc, cb, racer, mig, heldUsers>>

----------------------------------------------------------------------------

Init ==
  /\ now = 0
  /\ \E legacy \in LegacyTables :
       db = [EmptyTables EXCEPT !.sessions = legacy,
                                !.users = {UserRow(1, "u1")}]
  /\ trx = <<>>
  /\ autoinc = [sessions |-> Cardinality(LegacyRows) + 1, users |-> 2,
                groups |-> 1, members |-> 1]
  /\ rand = LegacyTokens
  /\ held = [s \in Slots |-> NoSession]
  /\ last = NoCall
  /\ pc = "idle"
  /\ cb = NoCallback
  /\ racer = [p \in Procs |-> NoRacer]
  /\ mig = [tables |-> {}, rows |-> [t \in MigrationTables |-> NoTable],
            applied |-> [t \in MigrationTables |-> {}],
            call |-> NoSchemaCall]
  /\ heldUsers = [x \in UserSlots |-> NoUser]
  /\ calls = NoCalls

(* The session store, one caller, no transaction. *)
SessionNext ==
  \/ \E l \in Lifetimes, p \in Periods : Create("knex", l, p, "drop")
  \/ \E tok \in Tokens : Open("knex", tok, "drop")
  \/ \E tok, rt \in Tokens, l \in Lifetimes, p \in Periods :
       Renew("knex", tok, l, rt, p, "drop")
  \/ Purge("knex")
  \/ Tick

Spec == Init /\ [][SessionNext]_vars

(* The atomic coordinator, followed through one atomicOperation call on    *)
(* the pool's Identity: the calls of the callback on the transaction-      *)
(* scoped Identity, its return or throw, and the reads that follow.        *)
AtomicNext ==
  \/ \E h \in Handles : AtomicOperation(h)
  \/ Create("trx", Lifetime(1), Lifetime(2), "a")
  \/ \E h \in Handles, tok \in Tokens : Open(h, tok, "a")
  \/ Destroy("a")
  \/ SetUserId("a", 1)
  \/ \E u \in Usernames : UserCreate("trx", u)
  \/ \E u \in Usernames : UserRemove("trx", u)
  \/ \E g \in Groupnames : GroupCreate("trx", g)
  \/ \E g \in Groupnames : GroupRemove("trx", g)
  \/ AddMember("trx", 1, 1)
  \/ CallbackReturns
  \/ \E e \in CallbackErrors : CallbackThrows(e)
  \/ Commit
  \/ Rollback
  \/ Settle

SpecAtomic == Init /\ [][AtomicNext]_vars

(* The session store with two callers, each making one renew call with a   *)
(* pair that a stored record carries; the calls interleave with each other *)
(* and with create, purge and destroy.                                     *)
RaceNext ==
  \/ \E l \in HandleLifetimes, p \in Periods : Create("knex", l, p, "a")
  \/ \E p \in Procs, r \in db.sessions :
       RenewSelects(p, r.token, r.renewalToken)
  \/ \E p \in Procs, l \in Lifetimes, r \in Periods : RenewContinues(p, l, r)
  \/ Purge("knex")
  \/ Destroy("a")
  \/ Tick

SpecRace == Init /\ [][RaceNext]_vars

(* The session store and the Session objects of one caller, who creates a  *)
(* session when holding none, keeps the objects that create, open and      *)
(* renew return in two variables and calls their methods.                  *)
HandleNext ==
  \/ held["a"] = NoSession /\ Create("knex", Lifetime(1), Lifetime(2), "a")
  \/ \E r \in db.sessions : Open("knex", r.token, "b")
  \/ /\ held["a"] # NoSession
     /\ Renew("knex", held["a"].token, Lifetime(1), held["a"].renewalToken,
              Lifetime(2), "a")
  \/ \E s \in Slots : SetUserId(s, 1)
  \/ \E s \in Slots : DiscardUserId(s)
  \/ \E s \in Slots : UpdateLifetime(s, Lifetime(1), Lifetime(2))
  \/ Tick

SpecHandle == Init /\ [][HandleNext]_vars

(* The session store when crypto.randomBytes may return a value it has     *)
(* returned before: the tokens of a call are drawn from all the values     *)
(* there are, those that stored records carry included; rand counts the    *)
(* values drawn.                                                           *)
Draws == 0 .. MaxTokens - 2

CollideNext ==
  \/ \E n \in Draws :
       /\ rand + 2 <= MaxTokens
       /\ CreateWith("knex", Lifetime(1), Lifetime(2), "drop", n)
       /\ rand' = rand + 2
  \/ \E r \in db.sessions, n \in Draws :
       /\ rand + 2 <= MaxTokens
       /\ RenewWith("knex", r.token, Lifetime(1), r.renewalToken, Lifetime(2),
                    "drop", n)
       /\ rand' = rand + 2
  \/ Purge("knex")
  \/ Tick

SpecCollide == Init /\ [][CollideNext]_vars

(* The migration engine, one caller: the schemas the library ships and the *)
(* schema of the engine's test, each over its own migration table; a call  *)
(* runs to its end before the next is made.                                *)
SchemaNext ==
  \/ \E this \in Shipped \cup {test_schema} : Up(this)
  \/ \E this \in Shipped \cup {test_schema} : Down(this)
  \/ \E this \in Shipped \cup {test_schema} : Build(this)
  \/ \E this \in Shipped \cup {test_schema} : Teardown(this)
  \/ UpRuns
  \/ UpIncrements
  \/ DownRuns
  \/ DownDecrements

SpecSchema == Init /\ [][SchemaNext]_vars

(* The same, with the promise of every call settling. *)
SpecSchemaFair ==
  /\ SpecSchema
  /\ WF_vars(UpRuns) /\ WF_vars(UpIncrements)
  /\ WF_vars(DownRuns) /\ WF_vars(DownDecrements)

(* One migration table used by two releases: one knows both migrations of  *)
(* test_schema, the older one only the first.                              *)
DowngradeNext ==
  \/ \E this \in {test_schema, older_schema} : Up(this)
  \/ \E this \in {test_schema, older_schema} : Down(this)
  \/ \E this \in {test_schema, older_schema} : Build(this)
  \/ \E this \in {test_schema, older_schema} : Teardown(this)
  \/ UpRuns
  \/ UpIncrements
  \/ DownRuns
  \/ DownDecrements

SpecDowngrade == Init /\ [][DowngradeNext]_vars

(* Users logging in to and out of the sessions of one caller, who keeps    *)
(* the Session and User objects the calls return.                          *)
AuthNext ==
  \/ held["a"] = NoSession /\ Create("knex", Lifetime(1), Lifetime(2), "a")
  \/ \E r \in db.sessions, s \in Slots : Open("knex", r.token, s)
  \/ UserCreate("knex", "u2")
  \/ \E u \in Usernames, x \in UserSlots : UserGet(u, x)
  \/ \E s \in Slots : FromSession(s, "x")
  \/ \E x \in UserSlots : SetPassword(x, 1)
  \/ \E x \in UserSlots, s \in Slots, p \in Passwords : Login(x, s, p)
  \/ \E x \in UserSlots, s \in Slots : Logout(x, s)

SpecAuth == Init /\ [][AuthNext]_vars


(* The groups of a store in which two users and two groups have been      *)
(* created: members added, listed and removed, groups and users removed.   *)
GroupInit ==
  /\ now = 0
  /\ db = [EmptyTables EXCEPT
             !.users = {UserRow(1, "u1"), UserRow(2, "u2")},
             !.groups = {GroupRow(1, "g1"), GroupRow(2, "g2")}]
  /\ trx = <<>>
  /\ autoinc = [sessions |-> 1, users |-> 3, groups |-> 3, members |-> 1]
  /\ rand = 0
  /\ held = [s \in Slots |-> NoSession]
  /\ last = NoCall
  /\ pc = "idle"
  /\ cb = NoCallback
  /\ racer = [p \in Procs |-> NoRacer]
  /\ mig = [tables |-> {}, rows |-> [t \in MigrationTables |-> NoTable],
            applied |-> [t \in MigrationTables |-> {}],
            call |-> NoSchemaCall]
  /\ heldUsers = [x \in UserSlots |-> NoUser]
  /\ calls = NoCalls

GroupIds == {1, 2}

UserIds == {1, 2}

GroupNext ==
  \/ \E g \in GroupIds, u \in UserIds :
       autoinc.members <= MaxMembers /\ AddMember("knex", g, u)
  \/ \E g \in GroupIds, u \in UserIds : RemoveMember(g, u)
  \/ \E g \in GroupIds : ListMembers(g)
  \/ \E g \in {"g1", "g2"} : GroupRemove("knex", g)
  \/ \E u \in Usernames : UserRemove("knex", u)

SpecGroup == GroupInit /\ [][GroupNext]_vars

(* Two callers of addMember whose awaits interleave. *)
MembersNext ==
  \/ \E p \in Procs, g \in GroupIds, u \in UserIds :
       autoinc.members <= MaxMembers /\ AddMemberChecks(p, g, u)
  \/ \E p \in Procs : AddMemberInserts(p)
  \/ \E g \in GroupIds, u \in UserIds : RemoveMember(g, u)
  \/ \E g \in {"g1", "g2"} : GroupRemove("knex", g)

SpecMembers == GroupInit /\ [][MembersNext]_vars

(* Everything a caller can do to a session record: the store's calls, the *)
(* methods of the Session object kept in one variable, login and logout    *)
(* of a User object, and the removal of the user.                          *)
RecordsNext ==
  \/ held["b"] = NoSession /\ Create("knex", Lifetime(1), Lifetime(2), "b")
  \/ \E r \in db.sessions : Open("knex", r.token, "b")
  \/ /\ held["b"] # NoSession
     /\ Renew("knex", held["b"].token, Lifetime(1), held["b"].renewalToken,
              Lifetime(2), "b")
  \/ Purge("knex")
  \/ Destroy("b")
  \/ SetUserId("b", 1)
  \/ DiscardUserId("b")
  \/ UpdateLifetime("b", Lifetime(1), Lifetime(2))
  \/ UserGet("u1", "x")
  \/ SetPassword("x", 1)
  \/ Login("x", "b", 1)
  \/ Logout("x", "b")
  \/ UserRemove("knex", "u1")
  \/ Tick

SpecRecords == Init /\ [][RecordsNext]_vars

(* Two Session objects of one record, the one unbound, destroyed or left  *)
(* behind by the removal of the user while the other is kept, and the User *)
(* that fromSession makes of each.                                         *)
StaleNext ==
  \/ held["a"] = NoSession /\ Create("knex", Lifetime(1), Lifetime(2), "a")
  \/ \E r \in db.sessions, s \in Slots : Open("knex", r.token, s)
  \/ UserGet("u1", "y")
  \/ SetPassword("y", 1)
  \/ \E s \in Slots : Login("y", s, 1)
  \/ \E s \in Slots : Logout("y", s)
  \/ \E s \in Slots : DiscardUserId(s)
  \/ Destroy("b")
  \/ UserRemove("knex", "u1")
  \/ \E s \in Slots : FromSession(s, "x")

SpecStale == Init /\ [][StaleNext]_vars

(* Requests to routes guarded with the update option, with the token of a *)
(* stored record or with one that no record carries, on a store whose      *)
(* session is created and bound and whose user joins a group while the     *)
(* clock advances.                                                         *)
RoutesNext ==
  \/ held["a"] = NoSession /\ Create("knex", Lifetime(1), Lifetime(2), "a")
  \/ SetUserId("a", 1)
  \/ GroupCreate("knex", "g1")
  \/ AddMember("knex", 1, 1)
  \/ Tick
  \/ \E guard \in Guards, token \in {r.token : r \in db.sessions} \cup {0} :
       Require(guard, {"g1"}, TRUE, token)

SpecRoutes == Init /\ [][RoutesNext]_vars

(* One atomicOperation on the pool's Identity whose callback gets a User  *)
(* and a Session from the transaction-scoped Identity and sets and reads   *)
(* items, beside a User of the pool's Identity that does the same.         *)
ItemsNext ==
  \/ AtomicOperation("knex")
  \/ \E h \in Handles : UserGetOn(h, "u1", IF isTransaction(h) THEN "x" ELSE "y")
  \/ \E x \in UserSlots, v \in Values : SetItems(x, "k1", v)
  \/ \E x \in UserSlots : GetItems(x, "k1")
  \/ Create("trx", Lifetime(1), Lifetime(2), "a")
  \/ pc = "callback" /\ \E r \in View("trx").sessions : Open("trx", r.token, "b")
  \/ UserRemove("trx", "u1")
  \/ CallbackReturns
  \/ CallbackThrows("Error")
  \/ Commit
  \/ Rollback
  \/ Settle

SpecItems == Init /\ [][ItemsNext]_vars

(* Two build() calls on one Schema that are not awaited. *)
BuildNext ==
  \E p \in Procs :
    \/ BuildCalled(p)
    \/ BuildHasTable(p, test_schema)
    \/ BuildCreatesTable(p, test_schema)
    \/ BuildInserts(p, test_schema)
    \/ BuildSelects(p, test_schema)
    \/ BuildRuns(p, test_schema)
    \/ BuildUpdates(p, test_schema)

SpecBuild == Init /\ [][BuildNext]_vars

----------------------------------------------------------------------------
(* Properties. *)

ApplyDelta(t, d) == [k \in DOMAIN t |-> (t[k] \ d.removed[k]) \cup d.added[k]]

RECURSIVE Replay(_, _)
Replay(t, log) ==
  IF log = <<>> THEN t ELSE Replay(ApplyDelta(t, Head(log)), Tail(log))

(* atomicOperation on the pool's Identity has just settled. *)
AtomicSettled == last.op = "atomicOperation" /\ last.db = "knex"

(* C1: when atomicOperation has settled, what a read on the pool's handle  *)
(* sees is the tables as they were before the call with every row-level    *)
(* write of the callback applied, if the callback returned, and the tables *)
(* as they were before the call, if it threw.                              *)
C1_AllOrNothing ==
  AtomicSettled =>
    /\ last.err = "none" => View("knex") = Replay(cb.pre, cb.log)
    /\ last.err # "none" => View("knex") = cb.pre

(* A callback made as many writes as the bound allows, to the session      *)
(* table among others, then threw, and the call has settled.               *)
C1_Witness ==
  /\ AtomicSettled
  /\ last.err = "Error"
  /\ Len(cb.log) >= 2
  /\ Replay(cb.pre, cb.log).sessions # cb.pre.sessions
  /\ Replay(cb.pre, cb.log).users # cb.pre.users

(* C2: a step that is atomicOperation called on the transaction-scoped     *)
(* Identity settles with IdentityNestedAtomicOperationError and changes    *)
(* nothing else: no transaction is opened, no callback starts, no table is *)
(* written.                                                                *)
C2_NestedRejected ==
  [][AtomicOperation("trx") =>
       /\ last'.op = "atomicOperation"
       /\ last'.err = "IdentityNestedAtomicOperationError"
       /\ UNCHANGED <<now, db, trx, autoinc, rand, held, pc, cb>>]_vars

(* The nested call was rejected inside a callback that had already written *)
(* and goes on.                                                            *)
C2_Witness ==
  /\ last.op = "atomicOperation"
  /\ last.db = "trx"
  /\ last.err = "IdentityNestedAtomicOperationError"
  /\ pc = "callback"
  /\ Len(trx) = 1
  /\ Len(cb.log) > 0

(* C3: the step that hands a callback's error to the caller of             *)
(* atomicOperation hands over the error the callback threw, and is taken   *)
(* when the transaction has been rolled back: no transaction is open and   *)
(* the committed tables are those from before the call.                    *)
C3_SameErrorAfterRollback ==
  [][(Settle /\ cb.err # "none") =>
       /\ last'.err = cb.err
       /\ pc = "rolledback"
       /\ trx = <<>>
       /\ db = cb.pre]_vars

(* A domain error raised by a call inside the callback was thrown on by    *)
(* the callback after a write, and has reached the caller.                 *)
C3_Witness ==
  /\ AtomicSettled
  /\ last.err = "UserExistsError"
  /\ cb.err = "UserExistsError"
  /\ Len(cb.log) > 0
  /\ trx = <<>>

(* The fields of a Session object are those of a stored row. *)
Reflects(ret, r) ==
  /\ ret.id = r.id
  /\ ret.token = r.token
  /\ ret.userId = r.userId
  /\ ret.expirationDate = r.expires
  /\ ret.renewalToken = r.renewalToken
  /\ ret.renewableUntil = r.renewableUntil

(* C4: an open call ends in exactly one of three ways, decided by the      *)
(* stored rows and the clock of the call: SessionInvalidError iff no row   *)
(* carries the token as its session token, SessionExpiredError iff the row *)
(* that carries it has a non-null expiry earlier than the clock, and       *)
(* otherwise a Session whose fields are that row's.                        *)
C4_OpenOutcome ==
  last.op = "open" =>
    LET carrying == {r \in View(last.db).sessions : r.token = last.token}
    IN  /\ Cardinality(carrying) <= 1
        /\ last.err \in {"none", "SessionInvalidError", "SessionExpiredError"}
        /\ last.err = "SessionInvalidError" <=> carrying = {}
        /\ last.err = "SessionExpiredError" <=>
             \E r \in carrying : r.expires # Null /\ r.expires < last.at
        /\ last.err = "none" =>
             \E r \in carrying : Reflects(last.ret, r)

(* A row without expiry was opened after the clock had advanced. *)
C4_Witness ==
  /\ last.op = "open"
  /\ last.err = "none"
  /\ last.at > 0
  /\ last.ret.expirationDate = Null
  /\ last.ret.token \in {r.token : r \in View(last.db).sessions}

(* A step that is a renew call which returned a Session. *)
Renewed == last' # last /\ last'.op = "renew" /\ last'.err = "none"

(* C5: a renew that succeeds rewrites the token, the expiry, the renewal   *)
(* token and the renewal window of the one row that carried the pair and   *)
(* nothing else: the row keeps its id and its user, the set of ids and all *)
(* other rows and tables stay, and the Session returned has the fields of  *)
(* the row as stored after the call.                                       *)
C5_RenewFrame ==
  [][Renewed =>
       LET matched == {r \in db.sessions :
                         /\ r.token = last'.token
                         /\ r.renewalToken = last'.renewalToken}
       IN  /\ Cardinality(matched) = 1
           /\ {r.id : r \in db'.sessions} = {r.id : r \in db.sessions}
           /\ Cardinality(db'.sessions) = Cardinality(db.sessions)
           /\ db.sessions \ matched \subseteq db'.sessions
           /\ \A m \in matched :
                \E n \in db'.sessions :
                  /\ n.id = m.id
                  /\ n.userId = m.userId
                  /\ Reflects(last'.ret, n)
           /\ db'.users = db.users
           /\ db'.groups = db.groups
           /\ db'.members = db.members]_vars

(* A row bound to a user was renewed beside another row. *)
C5_Witness ==
  /\ last.op = "renew"
  /\ last.err = "none"
  /\ last.ret.userId # Null
  /\ Cardinality(db.sessions) >= 2
  /\ \E r \in db.sessions : Reflects(last.ret, r)

(* C6: a renew call fails with SessionRenewalError iff no stored row        *)
(* carries both the session token and the renewal token presented, or the  *)
(* row that does has a non-null renewal window earlier than the clock; a   *)
(* call that fails leaves the tables as they were.                         *)
C6_RenewFailure ==
  [][(last' # last /\ last'.op = "renew") =>
       LET matched == {r \in db.sessions :
                         /\ r.token = last'.token
                         /\ r.renewalToken = last'.renewalToken}
       IN  /\ last'.err \in {"none", "SessionRenewalError"}
           /\ last'.err = "SessionRenewalError" <=>
                \/ matched = {}
                \/ \E r \in matched :
                     r.renewableUntil # Null /\ r.renewableUntil < last'.at
           /\ last'.err = "SessionRenewalError" => db' = db]_vars

(* A renew was refused that presented the session token of one row with    *)
(* the renewal token of another.                                           *)
C6_Witness ==
  /\ last.op = "renew"
  /\ last.err = "SessionRenewalError"
  /\ \E r1, r2 \in db.sessions :
       /\ r1.id # r2.id
       /\ r1.token = last.token
       /\ r2.renewalToken = last.renewalToken

(* The last call was a renew that succeeded with a positive lifetime, and  *)
(* no call has been made since (the clock may have advanced).              *)
JustRenewed == last.op = "renew" /\ last.err = "none" /\ last.lifetime > 0

RenewAgain(sessionToken, renewalToken) ==
  {renew(View("knex"), "knex",
         RenewSelect(View("knex"), sessionToken, renewalToken),
         l, p, now, now, now, rand).err : l \in Lifetimes, p \in Periods}

(* C7 as stated: after a successful renew with a positive lifetime and no  *)
(* call in between, open of the old token is SessionInvalidError, open of  *)
(* the new token succeeds, renew with the old pair is SessionRenewalError  *)
(* and both returned tokens differ from the old ones.                      *)
C7_AsStated ==
  JustRenewed =>
    /\ open(View("knex"), "knex", last.token, now).err = "SessionInvalidError"
    /\ open(View("knex"), "knex", last.ret.token, now).err = "none"
    /\ RenewAgain(last.token, last.renewalToken) = {"SessionRenewalError"}
    /\ last.ret.token # last.token
    /\ last.ret.renewalToken # last.renewalToken

(* C7, amended: as stated, except that open of the new token succeeds      *)
(* while the clock has not passed the new expiry, and is                   *)
(* SessionExpiredError, never SessionInvalidError, once it has.            *)
C7_RenewalMonotone ==
  JustRenewed =>
    /\ open(View("knex"), "knex", last.token, now).err = "SessionInvalidError"
    /\ open(View("knex"), "knex", last.ret.token, now).err =
         IF now <= last.ret.expirationDate THEN "none"
                                           ELSE "SessionExpiredError"
    /\ RenewAgain(last.token, last.renewalToken) = {"SessionRenewalError"}
    /\ last.ret.token # last.token
    /\ last.ret.renewalToken # last.renewalToken

(* A renew with a positive lifetime has succeeded and its token opens. *)
C7_Witness ==
  /\ JustRenewed
  /\ open(View("knex"), "knex", last.ret.token, now).err = "none"
  /\ open(View("knex"), "knex", last.token, now).err = "SessionInvalidError"

PastExpiry(r, clock) == r.expires # Null /\ r.expires < clock
PastRenewal(r, clock) == r.renewableUntil # Null /\ r.renewableUntil < clock

(* C8: for every stored row whose expiry has passed, at every clock value: *)
(* while its renewal window has not passed, open of its token is           *)
(* SessionExpiredError and renew with its pair succeeds; once the window   *)
(* has passed, renew with its pair is SessionRenewalError.  And every      *)
(* renew and open call that met such a row ended that way.                 *)
C8_RenewableAfterExpiry ==
  /\ \A r \in View("knex").sessions :
       (PastExpiry(r, now) /\ r.renewalToken # Null) =>
         /\ open(View("knex"), "knex", r.token, now).err
              = "SessionExpiredError"
         /\ RenewAgain(r.token, r.renewalToken) =
              IF PastRenewal(r, now) THEN {"SessionRenewalError"}
                                     ELSE {"none"}
  /\ (last.op = "open" /\ PastExpiry(last.row, last.at)) =>
       last.err = "SessionExpiredError"
  /\ (last.op = "renew" /\ PastExpiry(last.row, last.at)) =>
       last.err = IF PastRenewal(last.row, last.at)
                    THEN "SessionRenewalError" ELSE "none"

(* A row was renewed after its expiry had passed. *)
C8_Witness ==
  /\ last.op = "renew"
  /\ last.err = "none"
  /\ PastExpiry(last.row, last.at)
  /\ ~PastRenewal(last.row, last.at)
  /\ last.row.renewableUntil # Null

(* C9: a purge deletes exactly the rows whose renewal window is non-null   *)
(* and earlier than the clock of the call; every other row stays as it is, *)
(* whatever its expiry; afterwards open of a deleted row's token is        *)
(* SessionInvalidError and open of any other token ends as before.         *)
C9_PurgeFrame ==
  [][(last' # last /\ last'.op = "purge") =>
       /\ db'.sessions =
            {r \in db.sessions :
               r.renewableUntil = Null \/ r.renewableUntil >= last'.at}
       /\ db'.users = db.users
       /\ db'.groups = db.groups
       /\ db'.members = db.members
       /\ \A tok \in Tokens :
            open(db', "knex", tok, now').err =
              IF \E r \in db.sessions \ db'.sessions : r.token = tok
                THEN "SessionInvalidError"
                ELSE open(db, "knex", tok, now).err]_vars

(* A purge has run, the row that was created is gone, and a row without    *)
(* renewal window is still stored.                                         *)
C9_Witness ==
  /\ last.op = "purge"
  /\ autoinc.sessions > Cardinality(LegacyRows) + 1
  /\ \A r \in db.sessions : r.id <= Cardinality(LegacyRows)
  /\ \E r \in db.sessions : r.renewableUntil = Null

(* Two renew calls that read the same stored row with the same pair, both  *)
(* returned a Session, p before q.                                         *)
Raced(p, q) ==
  /\ racer[p].at = "returned" /\ racer[q].at = "returned"
  /\ racer[p].err = "none" /\ racer[q].err = "none"
  /\ racer[p].sessionResult = racer[q].sessionResult
  /\ racer[p].order < racer[q].order

(* C10: when two renew calls have read the same row with the same pair and *)
(* both have returned a Session, the row, while it is stored, carries the  *)
(* tokens returned to the call that wrote last, and open of the token      *)
(* returned to the other is SessionInvalidError.                           *)
C10_LastRenewWins ==
  \A p, q \in Procs :
    Raced(p, q) =>
      /\ \A r \in db.sessions :
           r.id = racer[q].ret.id =>
             /\ r.token = racer[q].ret.token
             /\ r.renewalToken = racer[q].ret.renewalToken
      /\ open(db, "knex", racer[p].ret.token, now).err = "SessionInvalidError"

(* Both racing calls have returned a Session and the row is stored with    *)
(* the tokens of the second.                                               *)
C10_Witness ==
  \E p, q \in Procs :
    /\ Raced(p, q)
    /\ racer[p].ret.id = racer[q].ret.id
    /\ racer[p].ret.token # racer[q].ret.token
    /\ \E r \in db.sessions : Reflects(racer[q].ret, r)
    /\ open(db, "knex", racer[p].ret.token, now).err = "SessionInvalidError"
    /\ open(db, "knex", racer[q].ret.token, now).err = "none"

(* C11, as stated: a renew call that interleaves with purge and destroy    *)
(* and returns a Session leaves a stored row that carries the returned     *)
(* token, so that open of the returned token is not SessionInvalidError.   *)
C11_RenewLeavesRecord ==
  [][\A p \in Procs :
       (/\ racer[p].at = "selected"
        /\ racer'[p].at = "returned"
        /\ racer'[p].err = "none") =>
         /\ \E r \in db'.sessions : r.token = racer'[p].ret.token
         /\ open(db', "knex", racer'[p].ret.token, now').err #
              "SessionInvalidError"]_vars

(* The last call was a create that returned a Session for a lifetime of    *)
(* zero or less, and no call has settled since (the clock may have         *)
(* advanced).                                                              *)
JustCreatedExpired ==
  last.op = "create" /\ last.err = "none" /\ last.lifetime <= 0

(* C12, as stated: after create with a lifetime of zero or less the record *)
(* is stored, and open of its token, at the instant of creation or later,  *)
(* is SessionExpiredError.                                                 *)
C12_AsStated ==
  JustCreatedExpired =>
    /\ \E r \in db.sessions : r.token = last.ret.token
    /\ open(db, "knex", last.ret.token, now).err = "SessionExpiredError"

(* C12, amended: the record is stored, and open of its token is            *)
(* SessionExpiredError when the lifetime is negative or the clock has      *)
(* passed the instant of creation; with a lifetime of zero, open at the    *)
(* very instant of creation returns the session.                           *)
C12_ExpiredOnCreate ==
  JustCreatedExpired =>
    /\ \E r \in db.sessions : r.token = last.ret.token
    /\ open(db, "knex", last.ret.token, now).err =
         IF last.lifetime < 0 \/ now > last.at THEN "SessionExpiredError"
                                               ELSE "none"

(* A session created with a negative lifetime is stored and its token      *)
(* opens as SessionExpiredError at the instant of its creation.            *)
C12_Witness ==
  /\ JustCreatedExpired
  /\ last.lifetime < 0
  /\ now = last.at
  /\ \E r \in db.sessions : r.token = last.ret.token
  /\ open(db, "knex", last.ret.token, now).err = "SessionExpiredError"

(* C13: for every stored record and the current clock: when the clock      *)
(* equals expires, open returns the session; when the clock equals         *)
(* renewable_until, renew with the record's pair succeeds and purge keeps  *)
(* the record; and purge deletes no record that renew with its pair        *)
(* accepts at the same clock.                                              *)
C13_BoundaryConvention ==
  \A r \in db.sessions :
    /\ r.expires = now => open(db, "knex", r.token, now).err = "none"
    /\ r.renewableUntil = now =>
         /\ RenewAgain(r.token, r.renewalToken) = {"none"}
         /\ r \in purge(db, now).sessions
    /\ ~(/\ r \notin purge(db, now).sessions
         /\ "none" \in RenewAgain(r.token, r.renewalToken))

(* A record is stored at the last instant of its renewal window: renew     *)
(* accepts it and purge keeps it; one instant later purge deletes it and   *)
(* renew refuses it.                                                       *)
C13_Witness ==
  \E r \in db.sessions :
    /\ r.renewableUntil = now
    /\ RenewAgain(r.token, r.renewalToken) = {"none"}
    /\ r \in purge(db, now).sessions
    /\ r \notin purge(db, now + 1).sessions
    /\ RenewalElapsed(r, now + 1)

(* A record is stored at the instant of its expiry and opens. *)
C13_WitnessExpiry ==
  \E r \in db.sessions :
    r.expires = now /\ open(db, "knex", r.token, now).err = "none"

UniqueTokens(t) ==
  \A r1, r2 \in t.sessions : r1.token = r2.token => r1 = r2

(* C14: no two stored records carry the same session token, before and     *)
(* after every step, also when create and renew are handed a token that a  *)
(* record already carries; such a call fails with the store's duplicate-   *)
(* entry error and leaves every record as it was.                          *)
C14_UniqueTokens ==
  [][/\ UniqueTokens(db) /\ UniqueTokens(db')
     /\ last'.err = "ER_DUP_ENTRY" => db' = db
     /\ \A n \in Draws :
          (/\ CreateWith("knex", Lifetime(1), Lifetime(2), "drop", n)
           /\ \E r \in db.sessions : r.token = generateToken(n))
            => last'.err = "ER_DUP_ENTRY"]_vars

(* create, and renew, were handed a token that another record carries and  *)
(* failed; two records are stored.                                         *)
C14_Witness ==
  /\ last.op \in {"create", "renew"}
  /\ last.err = "ER_DUP_ENTRY"
  /\ Cardinality(db.sessions) = 2
  /\ UniqueTokens(db)

(* C15, as stated: a create that returned a Session has left a record with *)
(* user_id NULL that the Session's fields equal, with expires = the clock  *)
(* of the call + lifetime; and for the values written by create and by     *)
(* renew, renewable_until - expires = renewalPeriod, whatever the clock    *)
(* did while the call ran.                                                 *)
C15_ExactRenewalPeriod ==
  (last.op \in {"create", "renew"} /\ last.err = "none") =>
    /\ last.op = "create" =>
         /\ \E r \in db.sessions : Reflects(last.ret, r) /\ r.userId = Null
         /\ last.ret.expirationDate = last.at + last.lifetime
    /\ last.ret.renewableUntil - last.ret.expirationDate = last.period

(* C16: a call of updateLifetime(lifetime, renewalPeriod) on a Session     *)
(* leaves the record with the object's id with expires = clock + lifetime  *)
(* and renewable_until = that expires + renewalPeriod, whatever the two    *)
(* were before, and with its id, token, renewal token and user_id as they  *)
(* were; every other record is as it was; and the same call repeated at    *)
(* the same clock leaves the store as the first call left it.              *)
C16_UpdateLifetimeResets ==
  [][\A s \in Slots, l \in Lifetimes, p \in Periods :
       UpdateLifetime(s, l, p) =>
         LET expires == now + lifetimeToMs(l)
             renewableUntil == expires + lifetimeToMs(p)
         IN  /\ db'.sessions =
                  {IF r.id = held[s].id
                     THEN SessionRow(r.id, r.token, r.userId, expires,
                                     r.renewalToken, renewableUntil)
                     ELSE r : r \in db.sessions}
             /\ held'[s].expirationDate = expires
             /\ held'[s].renewableUntil = renewableUntil
             /\ updateLifetime(db', held'[s], l, p, now').tables = db']_vars

(* updateLifetime has been called on a Session whose record had another    *)
(* expiry before: the record and the object carry clock + lifetime.        *)
C16_Witness ==
  /\ last.op = "updateLifetime"
  /\ now >= 2
  /\ \E s \in Slots, r \in db.sessions :
       /\ r.id = held[s].id
       /\ r.expires = now + 1
       /\ r.renewableUntil = now + 3
       /\ held[s].expirationDate = r.expires
       /\ held[s].renewableUntil = r.renewableUntil

(* What a call that sets user_id to u through the Session in s leaves. *)
UserIdSet(s, u) ==
  /\ db' = [db EXCEPT !.sessions =
              {IF r.id = held[s].id THEN [r EXCEPT !.userId = u] ELSE r
                 : r \in db.sessions}]
  /\ held'[s] = [held[s] EXCEPT !.userId = u]
  /\ \A r \in db'.sessions :
       r.id = held[s].id =>
         /\ r.userId = held'[s].userId
         /\ open(db', "knex", r.token, now').err \in
              {"none", "SessionExpiredError"}
         /\ open(db', "knex", r.token, now').err = "none" =>
              open(db', "knex", r.token, now').ret.userId = u

C18_DestroyFrame ==
  [][Destroy("a") =>
       /\ db' = [db EXCEPT !.sessions =
                   {r \in db.sessions : r.id # held["a"].id}]
       /\ \A r \in db.sessions :
            r.id = held["a"].id =>
              /\ open(db', "knex", r.token, now').err = "SessionInvalidError"
              /\ {renew(db', "knex",
                        RenewSelect(db', r.token, r.renewalToken), l, p,
                        now', now', now', rand').err
                    : l \in Lifetimes, p \in Periods} = {"SessionRenewalError"}
       /\ (~\E r \in db.sessions : r.id = held["a"].id) => db' = db
       /\ last'.err = "none"]_vars

(* destroy has removed the record of the Session, which no renew had       *)
(* changed and purge could not have deleted; another record is stored.     *)
C18_Witness ==
  /\ last.op = "destroy"
  /\ held["a"] # NoSession
  /\ \A p \in Procs : racer[p].at = "idle"
  /\ held["a"].renewableUntil >= now
  /\ ~\E r \in db.sessions : r.id = held["a"].id
  /\ db.sessions # {}
  /\ open(db, "knex", held["a"].token, now).err = "SessionInvalidError"

(* A step that changes a record through the Session in s, or a renew call  *)
(* whose Session the caller keeps in s.                                    *)
Mutates(s) ==
  \/ SetUserId(s, 1)
  \/ DiscardUserId(s)
  \/ \E l \in Lifetimes, p \in Periods : UpdateLifetime(s, l, p)
  \/ s = "a" /\ last'.op = "renew" /\ rand' # rand

(* C19: a step that changes a record through one Session object, or        *)
(* through renew, leaves the cached fields of every other Session object   *)
(* as they were, the objects of the same record included; and a Session    *)
(* that a later open returns carries the fields of the stored record.      *)
C19_HandlesAreSnapshots ==
  [][/\ \A s \in Slots :
          Mutates(s) => \A k \in Slots \ {s} : held'[k] = held[k]
     /\ \A r \in db.sessions :
          (Open("knex", r.token, "b") /\ last'.err = "none") =>
            Reflects(held'["b"], r)]_vars

(* Two Session objects of one stored record: the one the record was        *)
(* changed through carries the stored fields, the other one, obtained      *)
(* before the change, still carries the fields it was built with.          *)
C19_Witness ==
  /\ last.op \in {"setUserId", "discardUserId", "updateLifetime"}
  /\ held["a"] # NoSession /\ held["b"] # NoSession
  /\ held["a"].id = held["b"].id
  /\ \E r \in db.sessions :
       /\ \/ Reflects(held["a"], r) /\ ~Reflects(held["b"], r)
          \/ Reflects(held["b"], r) /\ ~Reflects(held["a"], r)
       /\ Reflects(open(db, "knex", r.token, now).ret, r)

(* C20: a call of UserAdmin.remove(username) that returns leaves every     *)
(* session record stored: those that were bound to the removed user with   *)
(* user_id NULL and every other column as it was, all others unchanged.    *)
C20_SessionsOutliveUser ==
  [][\A u \in Usernames :
       (UserRemove("trx", u) /\ last'.err = "none") =>
         LET before == View("trx")
             after == trx'[Len(trx')]
             gone == {x.id : x \in {v \in before.users : v.username = u}}
         IN  /\ gone # {}
             /\ \A r \in before.sessions :
                  IF r.userId \in gone
                    THEN [r EXCEPT !.userId = Null] \in after.sessions
                    ELSE r \in after.sessions
             /\ Cardinality(after.sessions) = Cardinality(before.sessions)
             /\ \A x \in after.users : x.id \notin gone]_vars

(* A user has been removed inside the callback: the session that is bound  *)
(* to the user in the committed tables is stored, anonymous, in the        *)
(* transaction's.                                                          *)
C20_Witness ==
  /\ pc = "callback"
  /\ last.op = "user.remove" /\ last.err = "none"
  /\ \E r \in db.sessions :
       /\ r.userId = 1
       /\ [r EXCEPT !.userId = Null] \in View("trx").sessions
  /\ ~\E x \in View("trx").users : x.id = 1

(* C21: a build() that finds the stored cursor equal to the number of      *)
(* migrations invokes no migration body, issues no statement that writes   *)
(* to the migration table, leaves the table as it found it and resolves,   *)
(* each time it is called.                                                 *)
UpToDate(this) == MigrationTable(TRUE, <<Len(this.migrations)>>)

C21_BuildIdempotent ==
  LET c == mig.call
  IN  (c.op = "build" /\ c.start = UpToDate(c.this)) =>
        /\ c.ran = <<>>
        /\ c.writes = 0
        /\ mig.rows[c.this.migrationTable] = c.start
        /\ c.at = "done" => c.err = "none"

C21_Witness ==
  /\ mig.call.op = "build"
  /\ mig.call.at = "done"
  /\ mig.call.start = UpToDate(mig.call.this)
  /\ mig.call.this = user_schema

(* C22: every build() call settles, whatever the migration table held when *)
(* it was made, the absent table included; when it resolves, the stored    *)
(* cursor is the number of migrations and the bodies it invoked are the up *)
(* bodies from the cursor it found to the last, in ascending order, each   *)
(* once; and the cursor is written after each body: while a body has       *)
(* settled and up has not returned, the cursor is still that body's index. *)
StartCursor(c) == IF c.start.exists THEN c.start.rows[1] ELSE 0

Cursor(this) == mig.rows[this.migrationTable].rows[1]

Ascending(c) ==
  c.ran = [k \in 1 .. Len(c.this.migrations) - StartCursor(c) |->
             Body(StartCursor(c) + k - 1, "up")]

BuildSettled ==
  LET c == mig.call
  IN  /\ c.op = "build"
      /\ c.at = "done"
      /\ c.err = "none" =>
            /\ mig.rows[c.this.migrationTable] = UpToDate(c.this)
            /\ Ascending(c)

C22_BuildReachesLatest ==
  /\ [](mig.call.op = "build" /\ mig.call.at = "body" =>
          Cursor(mig.call.this) = mig.call.ran[Len(mig.call.ran)].index)
  /\ (mig.call.op = "build" /\ mig.call.at = "step") ~> BuildSettled

C22_Witness ==
  /\ BuildSettled
  /\ mig.call.err = "none"
  /\ mig.call.this = user_schema
  /\ mig.call.start = MigrationTable(TRUE, <<1>>)

(* C23: every teardown() call settles; when it resolves, the migration     *)
(* table exists and holds the one value 0, and the bodies it invoked are   *)
(* the down bodies from the one below the cursor it found to the first, in *)
(* descending order, each once.                                            *)
Descending(c) ==
  c.ran = [k \in 1 .. StartCursor(c) |-> Body(StartCursor(c) - k, "down")]

TeardownSettled ==
  LET c == mig.call
  IN  /\ c.op = "teardown"
      /\ c.at = "done"
      /\ c.err = "none" =>
            /\ mig.rows[c.this.migrationTable] = MigrationTable(TRUE, <<0>>)
            /\ Descending(c)

C23_TeardownReachesZero ==
  (mig.call.op = "teardown" /\ mig.call.at = "step") ~> TeardownSettled

C23_Witness ==
  /\ TeardownSettled
  /\ mig.call.err = "none"
  /\ mig.call.this = user_schema
  /\ mig.call.start = UpToDate(user_schema)

(* C24: whenever no Schema call is in flight, the cursor of every          *)
(* migration table that exists lies between 0 and the number of            *)
(* migrations of its schema and the migrations applied are those with      *)
(* index below the cursor (none where the table does not exist); an up()   *)
(* or down() that returned true invoked one body and left the cursor one   *)
(* above, or below, the cursor it found; one that returned false invoked   *)
(* no body and left the cursor as it found it.                             *)
CursorCounts(this) ==
  LET t == this.migrationTable
  IN  IF mig.rows[t].exists
        THEN /\ Cursor(this) \in 0 .. Len(this.migrations)
             /\ mig.applied[t] = 0 .. Cursor(this) - 1
        ELSE mig.applied[t] = {}

C24_CursorCountsApplied ==
  LET c == mig.call
  IN  c.at \in {"idle", "done"} =>
        /\ \A this \in Shipped \cup {test_schema} : CursorCounts(this)
        /\ c.op = "up" /\ c.ret = "true" =>
              Len(c.ran) = 1 /\ Cursor(c.this) = StartCursor(c) + 1
        /\ c.op = "down" /\ c.ret = "true" =>
              Len(c.ran) = 1 /\ Cursor(c.this) = StartCursor(c) - 1
        /\ c.op \in {"up", "down"} /\ c.ret = "false" =>
              c.ran = <<>> /\ Cursor(c.this) = StartCursor(c)

C24_Witness ==
  /\ mig.call.op = "down"
  /\ mig.call.ret = "true"
  /\ mig.call.this = group_schema
  /\ mig.rows[group_schema.migrationTable] = MigrationTable(TRUE, <<1>>)
  /\ mig.rows[user_schema.migrationTable] = UpToDate(user_schema)

(* C25, as stated: a down() that resolves returns false only when it found *)
(* the cursor at 0; from every cursor above 0, one written by a Schema     *)
(* that knew more migrations included, it invokes one down body, leaves    *)
(* the cursor one below and returns true.                                  *)
DownResolved ==
  mig.call.op = "down" /\ mig.call.at = "done" /\ mig.call.err = "none"

C25_AsStated ==
  LET c == mig.call
  IN  DownResolved =>
        IF StartCursor(c) = 0
          THEN c.ret = "false"
          ELSE /\ c.ret = "true"
               /\ Len(c.ran) = 1
               /\ Cursor(c.this) = StartCursor(c) - 1

(* C25, amended: a down() that resolves returns false, invoking no body    *)
(* and leaving the cursor, when it found the cursor at 0 or above the      *)
(* number of migrations its Schema knows; from every cursor in between it  *)
(* invokes the down body of the migration below the cursor, leaves the     *)
(* cursor one below and returns true.                                      *)
C25_DownNoOp ==
  LET c == mig.call
  IN  DownResolved =>
        IF StartCursor(c) = 0 \/ StartCursor(c) > Len(c.this.migrations)
          THEN /\ c.ret = "false"
               /\ c.ran = <<>>
               /\ Cursor(c.this) = StartCursor(c)
          ELSE /\ c.ret = "true"
               /\ c.ran = <<Body(StartCursor(c) - 1, "down")>>
               /\ Cursor(c.this) = StartCursor(c) - 1

C25_Witness ==
  /\ DownResolved
  /\ mig.call.this = older_schema
  /\ StartCursor(mig.call) = Len(test_schema.migrations)

(* C26: a step in which a migration body is invoked and rejects leaves the *)
(* stored cursor as up(), or down(), read it and settles the call - the    *)
(* up() or down(), or the build() or teardown() around it - as rejected,   *)
(* with no value returned; and a call that has rejected invokes no further *)
(* body.                                                                   *)
Stored(rows, this) ==
  IF rows[this.migrationTable].exists THEN rows[this.migrationTable].rows[1]
                                      ELSE 0

Rejected(c) == c.at = "done" /\ c.err # "none" /\ c.ret = "pending"

C26_BodyThrows ==
  [][LET c == mig.call
         d == mig'.call
     IN  /\ (Len(d.ran) = Len(c.ran) + 1 /\ d.at # "body") =>
               /\ Rejected(d)
               /\ Stored(mig'.rows, c.this) = Stored(mig.rows, c.this)
         /\ Rejected(c) => (d = c \/ d.ran = <<>>)]_vars

C26_Witness ==
  /\ Rejected(mig.call)
  /\ mig.call.op = "build"
  /\ mig.call.this = user_schema
  /\ Len(mig.call.ran) = 2
  /\ mig.rows[user_schema.migrationTable] = MigrationTable(TRUE, <<1>>)

(* C27: for the three shipped schemas, a down() that resolves right after  *)
(* an up() of the same Schema returned true leaves the tables that exist   *)
(* and the cursor as that up() found them; and a teardown() that resolves, *)
(* called with every migration applied, leaves none of the tables that the *)
(* migrations of its Schema create.                                        *)
Creates(this) ==
  {this.migrations[i].up.table : i \in DOMAIN this.migrations}

C27_RoundTrip ==
  LET c == mig.call
  IN  (c.this \in Shipped /\ c.at = "done" /\ c.err = "none") =>
        /\ (c.op = "down" /\ c.undoes.up) =>
              /\ mig.tables = c.undoes.found
              /\ Cursor(c.this) = Stored([mig.rows EXCEPT
                                            ![c.this.migrationTable] =
                                              c.undoes.start], c.this)
        /\ (c.op = "teardown" /\ c.start = UpToDate(c.this)) =>
              ~(\E t \in mig.tables : t.table \in Creates(c.this))

(* C28: in the step of up() or down() that starts with                     *)
(* getCurrentMigrationNumber, a migration table that is absent comes to    *)
(* exist with the one row 0, written by the two statements of              *)
(* createMigrationTable, and the call goes on from cursor 0; a table that  *)
(* exists is not written and the call goes on from the value it holds.     *)
(* Over every step, a migration table that exists stays and holds one row, *)
(* and one that comes to exist did not exist before.                       *)
Reads(c, d, n) ==
  IF Len(d.ran) = Len(c.ran) + 1
    THEN d.ran[Len(d.ran)].index = (IF c.op \in {"up", "build"} THEN n
                                                                ELSE n - 1)
    ELSE d.ret \in {"false", "undefined"}

C28_MigrationTableOnce ==
  [][LET c == mig.call
         d == mig'.call
         t == c.this.migrationTable
     IN  /\ c.at = "step" =>
               IF mig.rows[t].exists
                 THEN /\ d.writes = c.writes
                      /\ mig'.rows = mig.rows
                      /\ Reads(c, d, mig.rows[t].rows[1])
                 ELSE /\ d.writes = c.writes + 2
                      /\ mig'.rows =
                           [mig.rows EXCEPT ![t] = MigrationTable(TRUE, <<0>>)]
                      /\ Reads(c, d, 0)
         /\ \A u \in MigrationTables :
               mig.rows[u].exists =>
                 mig'.rows[u].exists /\ Len(mig'.rows[u].rows) = 1]_vars

C28_Witness ==
  /\ mig.call.op = "down"
  /\ mig.call.at = "done"
  /\ mig.call.start = NoTable
  /\ mig.call.writes = 2
  /\ mig.rows[mig.call.this.migrationTable] = MigrationTable(TRUE, <<0>>)
  /\ \E u \in MigrationTables : mig.rows[u] = MigrationTable(TRUE, <<2>>)

(* C29: a login of a user whose stored digest is none, or not the digest   *)
(* of the password given, rejects with UserAuthenticationError and leaves  *)
(* the tables, the Session objects and the User objects as they were; a    *)
(* login with the password of the stored digest resolves, the record of    *)
(* the session is bound to the user, the Session object's userId is the    *)
(* user's id and the User object is authenticated.                         *)
Digest(t, this) == {u.password : u \in {v \in t.users : v.id = this.id}}

C29_Login ==
  [][\A x \in UserSlots, s \in Slots, p \in Passwords :
       Login(x, s, p) =>
         LET this == heldUsers[x]
             session == held[s]
         IN  /\ (Digest(db, this) # {} /\ hash(p) \notin Digest(db, this)) =>
                   /\ last'.err = "UserAuthenticationError"
                   /\ UNCHANGED <<db, held, heldUsers>>
             /\ hash(p) \in Digest(db, this) =>
                   /\ last'.err = "none"
                   /\ \A r \in db'.sessions :
                        r.id = session.id => r.userId = this.id
                   /\ held'[s].userId = this.id
                   /\ heldUsers'[x].authenticated]_vars

C29_Witness ==
  /\ last.op = "login"
  /\ last.err = "UserAuthenticationError"
  /\ \E x, y \in UserSlots, s \in Slots :
       /\ heldUsers[x].authenticated
       /\ held[s].userId = heldUsers[x].id
       /\ \E r \in db.sessions : r.id = held[s].id /\ r.userId = heldUsers[x].id
       /\ heldUsers[y] # NoUser
       /\ ~heldUsers[y].authenticated
       /\ Digest(db, heldUsers[y]) = {hash(1)}
       /\ Digest(db, heldUsers[x]) = {hash(1)}

(* C30: a logout by a User object that is not authenticated rejects with   *)
(* UserAuthenticationError; one by an authenticated User on a Session      *)
(* object whose userId is not the user's id rejects with                   *)
(* SessionInvalidError; both leave the tables, the Session objects and the *)
(* User objects as they were.  A logout that resolves was made by an       *)
(* authenticated User on a Session object with its id: it leaves the       *)
(* record of that session bound to no user, the other records as they      *)
(* were, and the User object not authenticated.                            *)
C30_Logout ==
  [][\A x \in UserSlots, s \in Slots :
       Logout(x, s) =>
         LET this == heldUsers[x]
             session == held[s]
         IN  /\ ~this.authenticated =>
                   /\ last'.err = "UserAuthenticationError"
                   /\ UNCHANGED <<db, held, heldUsers>>
             /\ (this.authenticated /\ session.userId # this.id) =>
                   /\ last'.err = "SessionInvalidError"
                   /\ UNCHANGED <<db, held, heldUsers>>
             /\ last'.err = "none" =>
                   /\ this.authenticated /\ session.userId = this.id
                   /\ \A r \in db'.sessions :
                        IF r.id = session.id THEN r.userId = Null
                                             ELSE r \in db.sessions
                   /\ held'[s].userId = Null
                   /\ ~heldUsers'[x].authenticated]_vars

C30_Witness ==
  /\ last.op = "logout"
  /\ last.err = "SessionInvalidError"
  /\ \E x, y \in UserSlots, s \in Slots :
       /\ heldUsers[x].authenticated
       /\ heldUsers[y].authenticated
       /\ heldUsers[y].id # heldUsers[x].id
       /\ held[s].userId = heldUsers[y].id
       /\ \E r \in db.sessions : r.id = held[s].id /\ r.userId = heldUsers[y].id

----------------------------------------------------------------------------
(* The usernames of the users that are members of a group. *)
MembersOf(t, groupId) ==
  {u.username : u \in {v \in t.users : hasMember(t, groupId, v.id)}}

(* C31: listMembers() returns exactly the usernames of the users that are  *)
(* members of the group it is called on; a user who is a member only of    *)
(* another group is not in the result.                                     *)
C31_ListMembers ==
  last.op = "group.listMembers" =>
    calls.listed.usernames = MembersOf(db, calls.listed.group)

(* C32: removeMember(user) removes the user's membership of this group     *)
(* only and leaves every other membership, and every other table, as it    *)
(* was; when the user is not a member of the group it fails with           *)
(* GroupNotAMemberError and changes nothing.                               *)
C32_RemoveMember ==
  [][\A g \in GroupIds, u \in UserIds :
       RemoveMember(g, u) =>
         IF hasMember(db, g, u)
           THEN /\ last'.err = "none"
                /\ ~hasMember(db', g, u)
                /\ db'.members \subseteq db.members
                /\ \A m \in db.members :
                     (m.groupId # g \/ m.userId # u) => m \in db'.members
                /\ db'.users = db.users /\ db'.groups = db.groups
                /\ db'.sessions = db.sessions
           ELSE /\ last'.err = "GroupNotAMemberError"
                /\ db' = db]_vars

(* A user removed from one of their two groups is still in the other. *)
C32_Witness ==
  /\ last.op = "group.removeMember" /\ last.err = "none"
  /\ ~hasMember(db, 1, 1) /\ hasMember(db, 2, 1) /\ hasMember(db, 2, 2)

(* C39: there is at most one membership row per (group, user) pair, also  *)
(* when two addMember calls for the same pair interleave between the       *)
(* membership check and the insert.                                        *)
C39_OneMembership ==
  \A m1 \in db.members, m2 \in db.members :
    (m1.groupId = m2.groupId /\ m1.userId = m2.userId) => m1 = m2

(* The ids of the stored session records. *)
Ids(t) == {r.id : r \in t.sessions}

(* C35: the set of session record ids changes only through create, which   *)
(* adds one id that no record carries or carried, through destroy, which   *)
(* removes the handle's id, and through purge, which removes the ids it    *)
(* selects; no other call adds or removes a record, also when made through *)
(* a handle whose record is gone.                                          *)
C35_RecordIds ==
  [][/\ Ids(db') # Ids(db) =>
          \/ /\ last'.op = "create"
             /\ autoinc.sessions \notin Ids(db)
             /\ Ids(db') = Ids(db) \cup {autoinc.sessions}
          \/ /\ last'.op = "destroy"
             /\ Ids(db') = Ids(db) \ {held["b"].id}
          \/ /\ last'.op = "purge"
             /\ Ids(db') = Ids(db) \ {r.id : r \in {q \in db.sessions : Purged(q, now)}}
     /\ \A id \in Ids(db') : id < autoinc'.sessions
     /\ Cardinality(db'.sessions) = Cardinality(Ids(db'))]_vars

(* A Session object whose record is gone has been used for a mutation. *)
C35_Witness ==
  /\ last.op \in {"setUserId", "updateLifetime", "login"}
  /\ last.err = "none"
  /\ held["b"] # NoSession
  /\ held["b"].id \notin Ids(db)

Bound(t, session, userId) ==
  \E r \in t.sessions : r.id = session.id /\ r.userId = userId

(* C37, as stated: fromSession returns an authenticated User only when the *)
(* stored record of the session is bound to that user.                     *)
C37_AsStated ==
  [][\A s \in Slots :
       (FromSession(s, "x") /\ last'.err = "none") =>
         Bound(db, held[s], heldUsers'["x"].id)]_vars

(* C37, amended: fromSession returns an authenticated User exactly when    *)
(* the userId cached in the Session object is the id of a stored user, and *)
(* the User is that user; when the cached userId is null it fails with     *)
(* UserAuthenticationError and when no such user is stored, with           *)
(* UserInvalidError, and the caller's User is as before.                   *)
C37_FromSession ==
  [][\A s \in Slots :
       FromSession(s, "x") =>
         LET userId == held[s].userId
             stored == {u \in db.users : u.id = userId}
         IN  IF userId # Null /\ stored # {}
               THEN /\ last'.err = "none"
                    /\ heldUsers'["x"].authenticated
                    /\ heldUsers'["x"].id = userId
                    /\ \E u \in stored : heldUsers'["x"].username = u.username
               ELSE /\ last'.err = IF userId = Null
                                     THEN "UserAuthenticationError"
                                     ELSE "UserInvalidError"
                    /\ heldUsers' = heldUsers]_vars

(* fromSession has returned an authenticated User for a Session object     *)
(* whose record is bound to nobody.                                        *)
C37_Witness ==
  /\ last.op = "user.fromSession" /\ last.err = "none"
  /\ heldUsers["x"] # NoUser /\ heldUsers["x"].authenticated
  /\ \E s \in Slots :
       /\ held[s] # NoSession
       /\ held[s].userId = heldUsers["x"].id
       /\ Bound(db, held[s], Null)

(* The stored record that a token opens, extended from this clock value. *)
Extended(t, token, clock) ==
  {[r EXCEPT !.expires = clock + lifetimeToMs(Lifetime(1)),
             !.renewableUntil = clock + lifetimeToMs(Lifetime(1))
                                + lifetimeToMs(Lifetime(2))]
     : r \in {q \in t.sessions : q.token = token}}

(* C33: a guard configured with the update option extends the lifetime of  *)
(* the session as soon as the token opens, before the login and the group  *)
(* check: the stored record is extended also when the request is then      *)
(* rejected, next() is called only for a logged-in user who passes the     *)
(* group check, and a request whose token does not open changes no record. *)
C33_UpdateBeforeCheck ==
  [][\A guard \in Guards, token \in {r.token : r \in db.sessions} \cup {0} :
       Require(guard, {"g1"}, TRUE, token) =>
         LET o == open(db, "knex", token, now)
             accepted ==
               /\ o.ret.userId # Null
               /\ \E u \in db.users : u.id = o.ret.userId
               /\ userIsAuthorized(guard, {"g1"}, listGroups(db, o.ret.userId))
         IN  IF o.err # "none"
               THEN /\ db' = db
                    /\ calls'.request.status = "sent"
                    /\ calls'.request.err = o.err
               ELSE /\ db'.sessions =
                         {r \in db.sessions : r.token # token}
                           \cup Extended(db, token, now)
                    /\ db'.users = db.users /\ db'.groups = db.groups
                    /\ db'.members = db.members
                    /\ calls'.request.status = "next" <=> accepted
                    /\ calls'.request.status \in {"next", "sent"}]_vars

(* A request with a valid session was rejected for the missing login or    *)
(* the missing group, and the stored record carries the extended lifetime. *)
C33_Witness ==
  /\ last.op \in Guards
  /\ calls.request.status = "sent"
  /\ calls.request.err \in {"UserAuthenticationError", "GroupNotAMemberError"}
  /\ now > 1
  /\ \E r \in db.sessions :
       /\ r.token = calls.request.token
       /\ r.expires = now + 1 /\ r.renewableUntil = now + 3

(* C34: inside the callback of atomicOperation every call on the           *)
(* transaction-scoped Identity and on the objects obtained from it works   *)
(* on the one transaction of the call: the pool's tables are untouched,    *)
(* no second transaction is opened, setItems included, the objects         *)
(* obtained carry the transaction's handle, and what a read sees is the    *)
(* tables as they were when the transaction began with every earlier write *)
(* of the callback applied; the call begins a transaction of its own on    *)
(* the committed tables.                                                   *)
C34_OneTransaction ==
  [][/\ (pc = "callback" /\ pc' = "callback") =>
          /\ db' = db
          /\ Len(trx') = 1
          /\ last'.db = "trx"
          /\ trx'[1] = Replay(cb'.pre, cb'.log)
          /\ \A s \in Slots : held'[s] # held[s] => held'[s].db = "trx"
          /\ \A x \in UserSlots :
               heldUsers'[x] # heldUsers[x] => heldUsers'[x].db = "trx"
          /\ last'.op \in {"setItems", "getItems"} => calls'.items.depth = 1
          /\ last'.op = "getItems" =>
               calls'.items.values =
                 getItems(Replay(cb.pre, cb.log), heldUsers["x"], "k1")
     /\ (pc = "idle" /\ pc' = "callback") =>
          /\ trx' = <<db>>
          /\ cb'.pre = db /\ cb'.log = <<>>
          /\ db' = db]_vars

(* The callback has set an item twice and reads the second value, which    *)
(* the pool's tables do not hold.                                          *)
C34_Witness ==
  /\ pc = "callback"
  /\ last.op = "getItems" /\ last.db = "trx"
  /\ calls.items.values = {"v2"}
  /\ Len(cb.log) = 2
  /\ db.data = {DataRow(1, "k1", "v1")}

(* The bodies that the two build() calls have invoked. *)
Invoked(i) ==
  UNION {{<<p, k>> : k \in {j \in DOMAIN calls.builders[p].ran :
                              calls.builders[p].ran[j] = i}} : p \in Procs}

(* C38: two concurrent build() calls on one migration table never invoke   *)
(* the up body of one migration twice and never read a migration table     *)
(* that exists but has no row, and when both have finished the table holds *)
(* one row, whose migration number is the number of migrations.            *)
C38_ConcurrentBuild ==
  /\ \A i \in 0 .. Len(test_schema.migrations) - 1 :
       Cardinality(Invoked(i)) <= 1
  /\ \A p \in Procs : ~calls.builders[p].empty
  /\ (\A p \in Procs : calls.builders[p].at = "done") =>
       mig.rows[test_schema.migrationTable] =
         MigrationTable(TRUE, <<Len(test_schema.migrations)>>)

====
